---- MODULE Spec2Model ----
(***************************************************************************)
(* detect-breaking-graphql-changes: the comparison of two GraphQL schema   *)
(* versions (src/src/detectBreakingChanges.ts).  detectBreakingChanges     *)
(* builds both schemas, runs the five passes and concatenates their        *)
(* results into breakingChanges and dangerousChanges.                      *)
(***************************************************************************)
EXTENDS Integers, Sequences, FiniteSets, TLC

\* detectBreakingChanges: its two texts, its locals and its position
VARIABLES from, to, fromSchema, toSchema, pc, argChanges, breakingChanges,
          dangerousChanges

\* the program that calls it (the GitHub action's run or the command line's
\* main): what it is given, its position, the index of its forEach, the error
\* it caught, the calls it made and the exit code of the process
VARIABLES env, step, idx, caught, calls, exitCode

host == <<env, step, idx, caught, calls, exitCode>>

vars == <<from, to, fromSchema, toSchema, pc, argChanges, breakingChanges,
          dangerousChanges, env, step, idx, caught, calls, exitCode>>

(***************************************************************************)
(* Bounds of the input space.                                              *)
(***************************************************************************)
\* list nesting of the type references drawn for fields and arguments
MaxListDepth == 1
\* number of fields of the type whose field set varies
MaxFields == 3
\* length of the list-shaped default values
MaxLen == 2

(***************************************************************************)
(* Generic helpers on sequences.                                           *)
(***************************************************************************)
RECURSIVE Flatten(_)
Flatten(ss) == IF ss = <<>> THEN <<>> ELSE Head(ss) \o Flatten(Tail(ss))

SelectIdx(s, Test(_)) == { i \in 1..Len(s) : Test(s[i]) }

Range(s) == { s[i] : i \in 1..Len(s) }

\* arr.find(pred): index of the first match, 0 when there is none
FindIdx(s, Test(_)) ==
  LET hits == SelectIdx(s, Test)
  IN  IF hits = {} THEN 0 ELSE CHOOSE i \in hits : \A j \in hits : i <= j

(***************************************************************************)
(* Type references: GraphQLNamedType | GraphQLList | GraphQLNonNull.       *)
(***************************************************************************)
Named(n) == [kind |-> "Named", name |-> n]
List(t) == [kind |-> "List", ofType |-> t]
NonNull(t) == [kind |-> "NonNull", ofType |-> t]

isListType(t) == t.kind = "List"
isNonNullType(t) == t.kind = "NonNull"
isNamedType(t) == t.kind = "Named"

\* GraphQLType.toString()
RECURSIVE typeToString(_)
typeToString(t) ==
  IF isNamedType(t) THEN t.name
  ELSE IF isListType(t) THEN "[" \o typeToString(t.ofType) \o "]"
  ELSE typeToString(t.ofType) \o "!"

\* mutant: a nullable named type may not become non-null
RECURSIVE isChangeSafeForObjectOrInterfaceField_NoPromotion(_, _)
isChangeSafeForObjectOrInterfaceField_NoPromotion(oldType, newType) ==
  IF isListType(oldType) THEN
    \/ /\ isListType(newType)
       /\ isChangeSafeForObjectOrInterfaceField_NoPromotion(oldType.ofType,
                                                            newType.ofType)
    \/ /\ isNonNullType(newType)
       /\ isChangeSafeForObjectOrInterfaceField_NoPromotion(oldType,
                                                            newType.ofType)
  ELSE IF isNonNullType(oldType) THEN
    /\ isNonNullType(newType)
    /\ isChangeSafeForObjectOrInterfaceField_NoPromotion(oldType.ofType,
                                                         newType.ofType)
  ELSE IF isNamedType(oldType) THEN
    /\ isNamedType(newType)
    /\ oldType.name = newType.name
  ELSE FALSE

RECURSIVE isChangeSafeForObjectOrInterfaceField(_, _)
isChangeSafeForObjectOrInterfaceField(oldType, newType) ==
  IF isListType(oldType) THEN
    \/ /\ isListType(newType)
       /\ isChangeSafeForObjectOrInterfaceField(oldType.ofType, newType.ofType)
    \/ /\ isNonNullType(newType)
       /\ isChangeSafeForObjectOrInterfaceField(oldType, newType.ofType)
  ELSE IF isNonNullType(oldType) THEN
    /\ isNonNullType(newType)
    /\ isChangeSafeForObjectOrInterfaceField(oldType.ofType, newType.ofType)
  ELSE IF isNamedType(oldType) THEN
    \/ /\ isNamedType(newType)
       /\ oldType.name = newType.name
    \/ /\ isNonNullType(newType)
       /\ isChangeSafeForObjectOrInterfaceField(oldType, newType.ofType)
  ELSE FALSE

\* mutant: a non-null type is safe only when it becomes nullable
RECURSIVE isChangeSafeForInputObjectFieldOrFieldArg_MustRelax(_, _)
isChangeSafeForInputObjectFieldOrFieldArg_MustRelax(oldType, newType) ==
  IF isListType(oldType) THEN
    /\ isListType(newType)
    /\ isChangeSafeForInputObjectFieldOrFieldArg_MustRelax(oldType.ofType,
                                                           newType.ofType)
  ELSE IF isNonNullType(oldType) THEN
    /\ ~isNonNullType(newType)
    /\ isChangeSafeForInputObjectFieldOrFieldArg_MustRelax(oldType.ofType,
                                                           newType)
  ELSE IF isNamedType(oldType) THEN
    /\ isNamedType(newType)
    /\ oldType.name = newType.name
  ELSE FALSE

\* mutant: a list may be wrapped in non-null, as the rule for fields allows
RECURSIVE isChangeSafeForInputObjectFieldOrFieldArg_ListPromotion(_, _)
isChangeSafeForInputObjectFieldOrFieldArg_ListPromotion(oldType, newType) ==
  IF isListType(oldType) THEN
    \/ /\ isListType(newType)
       /\ isChangeSafeForInputObjectFieldOrFieldArg_ListPromotion(
            oldType.ofType, newType.ofType)
    \/ /\ isNonNullType(newType)
       /\ isChangeSafeForInputObjectFieldOrFieldArg_ListPromotion(
            oldType, newType.ofType)
  ELSE IF isNonNullType(oldType) THEN
    \/ /\ isNonNullType(newType)
       /\ isChangeSafeForInputObjectFieldOrFieldArg_ListPromotion(
            oldType.ofType, newType.ofType)
    \/ /\ ~isNonNullType(newType)
       /\ isChangeSafeForInputObjectFieldOrFieldArg_ListPromotion(
            oldType.ofType, newType)
  ELSE IF isNamedType(oldType) THEN
    /\ isNamedType(newType)
    /\ oldType.name = newType.name
  ELSE FALSE

RECURSIVE isChangeSafeForInputObjectFieldOrFieldArg(_, _)
isChangeSafeForInputObjectFieldOrFieldArg(oldType, newType) ==
  IF isListType(oldType) THEN
    /\ isListType(newType)
    /\ isChangeSafeForInputObjectFieldOrFieldArg(oldType.ofType, newType.ofType)
  ELSE IF isNonNullType(oldType) THEN
    \/ /\ isNonNullType(newType)
       /\ isChangeSafeForInputObjectFieldOrFieldArg(oldType.ofType,
                                                    newType.ofType)
    \/ /\ ~isNonNullType(newType)
       /\ isChangeSafeForInputObjectFieldOrFieldArg(oldType.ofType, newType)
  ELSE IF isNamedType(oldType) THEN
    /\ isNamedType(newType)
    /\ oldType.name = newType.name
  ELSE FALSE

(***************************************************************************)
(* Default values as buildSchema leaves them on an argument: undefined     *)
(* (no default), null, a primitive, an array or an object whose entries    *)
(* keep their insertion order.                                             *)
(***************************************************************************)
Undef == [t |-> "undefined"]
Null == [t |-> "null"]
Str(s) == [t |-> "string", v |-> s]
Num(s) == [t |-> "number", v |-> s]
Arr(items) == [t |-> "array", items |-> items]
Obj(entries) == [t |-> "object", entries |-> entries]

\* typeof v
typeOf(v) ==
  IF v.t \in {"array", "object", "null"} THEN "object" ELSE v.t

\* Array.isArray(v)
isArray(v) == v.t = "array"

\* v == null
isNullish(v) == v.t \in {"undefined", "null"}

\* Object.keys(v) of an array or an object
Keys(v) ==
  IF isArray(v) THEN [i \in 1..Len(v.items) |-> ToString(i - 1)]
  ELSE [i \in 1..Len(v.entries) |-> v.entries[i][1]]

\* v[key], for a key of Keys(v)
Get(v, key) ==
  IF isArray(v)
  THEN v.items[CHOOSE i \in 1..Len(v.items) : ToString(i - 1) = key]
  ELSE v.entries[CHOOSE i \in 1..Len(v.entries) : v.entries[i][1] = key][2]

\* a === b: primitives by value (NaN is not equal to itself), arrays and
\* objects by identity, and the two schemas never share an array or object
StrictEquals(a, b) ==
  /\ a.t \in {"undefined", "null", "string", "number", "boolean"}
  /\ a = b
  /\ ~(a.t = "number" /\ a.v = "NaN")

\* mutant: defaults compared with === alone
isDefaultValueEqual_IdentityOnly(oldValue, newValue) ==
  StrictEquals(oldValue, newValue)

RECURSIVE isDefaultValueEqual(_, _)
isDefaultValueEqual(oldValue, newValue) ==
  IF StrictEquals(oldValue, newValue) THEN TRUE
  ELSE IF isNullish(oldValue) \/ isNullish(newValue) THEN FALSE
  ELSE IF typeOf(oldValue) # typeOf(newValue) THEN FALSE
  ELSE IF isArray(oldValue) /\ isArray(newValue) THEN
    /\ Len(oldValue.items) = Len(newValue.items)
    /\ \A index \in 1..Len(oldValue.items) :
         isDefaultValueEqual(oldValue.items[index], newValue.items[index])
  ELSE IF typeOf(oldValue) = "object" /\ typeOf(newValue) = "object" THEN
    LET oldKeys == Keys(oldValue)
        newKeys == Keys(newValue)
    IN  /\ Len(oldKeys) = Len(newKeys)
        /\ \A k \in 1..Len(oldKeys) :
             /\ oldKeys[k] \in Range(newKeys)
             /\ isDefaultValueEqual(Get(oldValue, oldKeys[k]),
                                    Get(newValue, oldKeys[k]))
  ELSE FALSE

(***************************************************************************)
(* Schema definitions as written in a schema text, and their source text:  *)
(* the parser attaches to every node the line of its first token and the   *)
(* column of its last token.  A text is laid out as the tests write it:    *)
(* definitions start on line 2 at column 7, separated by one blank line,   *)
(* members one per line at column 9.                                       *)
(***************************************************************************)
ArgDef(name, type, defaultValue, directives) ==
  [name |-> name, type |-> type, defaultValue |-> defaultValue,
   directives |-> directives]

FieldDef(name, type, args, directives) ==
  [name |-> name, type |-> type, args |-> args, directives |-> directives]

ValueDef(name, directives) == [name |-> name, directives |-> directives]

TypeDef(name, kind, fields, values, types, directives) ==
  [name |-> name, kind |-> kind, fields |-> fields, values |-> values,
   types |-> types, directives |-> directives]

ScalarDef(name) == TypeDef(name, "Scalar", <<>>, <<>>, <<>>, {})
ObjectDef(name, fields) == TypeDef(name, "Object", fields, <<>>, <<>>, {})
InterfaceDef(name, fields) == TypeDef(name, "Interface", fields, <<>>, <<>>, {})
UnionDef(name, types) == TypeDef(name, "Union", <<>>, <<>>, types, {})
EnumDef(name, values) == TypeDef(name, "Enum", <<>>, values, <<>>, {})
InputDef(name, fields) == TypeDef(name, "Input", fields, <<>>, <<>>, {})

RECURSIVE Join(_, _)
Join(strs, sep) ==
  IF strs = <<>> THEN ""
  ELSE IF Len(strs) = 1 THEN strs[1]
  ELSE strs[1] \o sep \o Join(Tail(strs), sep)

\* the literal that yields value v
RECURSIVE literalText(_)
literalText(v) ==
  CASE v.t = "null" -> "null"
    [] v.t = "string" -> "\"" \o v.v \o "\""
    [] v.t = "array" ->
         "[" \o Join([i \in 1..Len(v.items) |-> literalText(v.items[i])], ", ")
             \o "]"
    [] v.t = "object" ->
         "{" \o Join([i \in 1..Len(v.entries) |->
                        v.entries[i][1] \o ": " \o literalText(v.entries[i][2])],
                     ", ") \o "}"
    [] OTHER -> v.v

directivesText(directives) ==
  (IF "required" \in directives THEN " @required" ELSE "")
    \o (IF "deprecated" \in directives THEN " @deprecated" ELSE "")

\* length of the last token of a type reference, of a literal, of directives
lastTokenOfType(t) == IF isNamedType(t) THEN Len(t.name) ELSE 1

lastTokenOfLiteral(v) ==
  IF v.t \in {"array", "object"} THEN 1 ELSE Len(literalText(v))

lastTokenOfDirectives(directives) ==
  IF "deprecated" \in directives THEN Len("deprecated") ELSE Len("required")

argText(a) ==
  a.name \o ": " \o typeToString(a.type)
    \o (IF a.defaultValue = Undef THEN ""
        ELSE " = " \o literalText(a.defaultValue))
    \o directivesText(a.directives)

argLastToken(a) ==
  IF a.directives # {} THEN lastTokenOfDirectives(a.directives)
  ELSE IF a.defaultValue # Undef THEN lastTokenOfLiteral(a.defaultValue)
  ELSE lastTokenOfType(a.type)

fieldText(f) ==
  f.name
    \o (IF f.args = <<>> THEN ""
        ELSE "(" \o Join([i \in 1..Len(f.args) |-> argText(f.args[i])], ", ")
                 \o ")")
    \o ": " \o typeToString(f.type) \o directivesText(f.directives)

fieldLastToken(f) ==
  IF f.directives # {} THEN lastTokenOfDirectives(f.directives)
  ELSE lastTokenOfType(f.type)

\* column at which argument i of field f starts, the field starting at col
argStart(f, i, col) ==
  col + Len(f.name) + 1
    + Len(Join([j \in 1..(i - 1) |-> argText(f.args[j]) \o ", "], ""))

\* number of lines a definition takes
defLines(d) ==
  IF d.kind \in {"Scalar", "Union"} \/ (d.fields = <<>> /\ d.values = <<>>)
  THEN 1
  ELSE 2 + Len(d.fields) + Len(d.values)

RECURSIVE startLine(_, _)
startLine(doc, i) ==
  IF i = 1 THEN 2 ELSE startLine(doc, i - 1) + defLines(doc[i - 1]) + 1

keywordOf(kind) ==
  CASE kind = "Scalar" -> "scalar"
    [] kind = "Object" -> "type"
    [] kind = "Interface" -> "interface"
    [] kind = "Union" -> "union"
    [] kind = "Enum" -> "enum"
    [] kind = "Input" -> "input"

\* column of the last token of a definition that starts at column 7
defEndColumn(d) ==
  IF defLines(d) > 1 THEN 7
  ELSE IF d.kind = "Union" /\ d.types # <<>>
  THEN 7 + Len(keywordOf(d.kind)) + 1 + Len(d.name) + 3
         + Len(Join(d.types, " | ")) - Len(d.types[Len(d.types)])
  ELSE 7 + Len(keywordOf(d.kind)) + 1

(***************************************************************************)
(* AST nodes and the schema buildSchema makes of a text.                   *)
(***************************************************************************)
\* a built-in type has no astNode
NoNode == [present |-> FALSE, line |-> 0, column |-> 0, directives |-> {}]

Node(line, column, directives) ==
  [present |-> TRUE, line |-> line, column |-> column,
   directives |-> directives]

buildArg(f, i, line, col) ==
  LET a == f.args[i]
  IN  [name |-> a.name, type |-> a.type, defaultValue |-> a.defaultValue,
       astNode |-> Node(line,
                        argStart(f, i, col) + Len(argText(a)) - argLastToken(a),
                        a.directives)]

buildField(f, line) ==
  [name |-> f.name, type |-> f.type,
   args |-> [i \in 1..Len(f.args) |-> buildArg(f, i, line, 9)],
   astNode |-> Node(line, 9 + Len(fieldText(f)) - fieldLastToken(f),
                    f.directives)]

buildValue(v, line) ==
  [name |-> v.name,
   astNode |-> Node(line,
                    IF v.directives = {} THEN 9
                    ELSE 9 + Len(v.name \o directivesText(v.directives))
                           - lastTokenOfDirectives(v.directives),
                    v.directives)]

buildType(doc, i) ==
  LET d == doc[i]
      line == startLine(doc, i)
  IN  [name |-> d.name, kind |-> d.kind,
       fields |-> [k \in 1..Len(d.fields) |-> buildField(d.fields[k], line + k)],
       values |-> [k \in 1..Len(d.values) |-> buildValue(d.values[k], line + k)],
       types |-> d.types,
       astNode |-> Node(line, defEndColumn(d), d.directives)]

\* specifiedScalarTypes and introspectionTypes of graphql
SpecifiedScalarNames == {"String", "Int", "Float", "Boolean", "ID"}

IntrospectionNames ==
  {"__Schema", "__Directive", "__DirectiveLocation", "__Type", "__Field",
   "__InputValue", "__EnumValue", "__TypeKind"}

builtInType(name) ==
  [name |-> name,
   kind |-> IF name \in SpecifiedScalarNames THEN "Scalar"
            ELSE IF name \in {"__TypeKind", "__DirectiveLocation"} THEN "Enum"
            ELSE "Object",
   fields |-> <<>>, values |-> <<>>, types |-> <<>>, astNode |-> NoNode]

RECURSIVE namedTypeOf(_)
namedTypeOf(t) == IF isNamedType(t) THEN t.name ELSE namedTypeOf(t.ofType)

\* the type names a definition refers to, in the order the schema collects them
referencedNames(d) ==
  Flatten([k \in 1..Len(d.fields) |->
             [j \in 1..Len(d.fields[k].args) |->
                namedTypeOf(d.fields[k].args[j].type)]
               \o <<namedTypeOf(d.fields[k].type)>>]) \o d.types

typeNames(typeMap) == { typeMap[i].name : i \in 1..Len(typeMap) }

docIndex(doc, name) == FindIdx(doc, LAMBDA d : d.name = name)

\* the type map of the schema: every definition followed by the types it
\* refers to, then the types of the built-in directives and of introspection
RECURSIVE collectReferencedTypes(_, _, _)
RECURSIVE collectAll(_, _, _)
collectReferencedTypes(doc, name, typeMap) ==
  IF name \in typeNames(typeMap) THEN typeMap
  ELSE IF docIndex(doc, name) = 0
  THEN Append(typeMap, builtInType(name))
  ELSE collectAll(doc, referencedNames(doc[docIndex(doc, name)]),
                  Append(typeMap, buildType(doc, docIndex(doc, name))))

collectAll(doc, names, typeMap) ==
  IF names = <<>> THEN typeMap
  ELSE collectAll(doc, Tail(names),
                  collectReferencedTypes(doc, Head(names), typeMap))

\* buildSchema(text).getTypeMap(), keys in insertion order
buildSchema(text) ==
  collectAll(text.doc,
             [i \in 1..Len(text.doc) |-> text.doc[i].name]
               \o <<"Boolean", "String", "__Schema", "__TypeKind">>,
             <<>>)

\* typeMap[typeName]; the model's undefined is a record of kind "undefined"
NoType ==
  [name |-> "", kind |-> "undefined", fields |-> <<>>, values |-> <<>>,
   types |-> <<>>, astNode |-> NoNode]

typeOfName(typeMap, typeName) ==
  LET i == FindIdx(typeMap, LAMBDA t : t.name = typeName)
  IN  IF i = 0 THEN NoType ELSE typeMap[i]

hasName(defs, name) == \E i \in 1..Len(defs) : defs[i].name = name

byName(defs, name) == defs[FindIdx(defs, LAMBDA d : d.name = name)]

(***************************************************************************)
(* The passes of detectBreakingChanges.ts.                                 *)
(***************************************************************************)
\* Messages are written with ' where the source writes a backquote.

\* the loc of a change that has none
Undefined == "undefined"

getLocation(astNode) ==
  IF astNode.present
  THEN ToString(astNode.line) \o ":" \o ToString(astNode.column)
  ELSE "0:0"

isDeprecated(node) == node.present /\ "deprecated" \in node.directives

isObjectType(type) == type.kind = "Object"
isInterfaceType(type) == type.kind = "Interface"
isEnumType(type) == type.kind = "Enum"
isIntrospectionType(type) == type.name \in IntrospectionNames
\* mutant: the specified scalars are not recognised
isSpecifiedScalarType_Never(type) == FALSE

isSpecifiedScalarType(type) ==
  type.name \in SpecifiedScalarNames

startsWith(str, prefix) ==
  Len(str) >= Len(prefix) /\ SubSeq(str, 1, Len(prefix)) = prefix

\* mutant: a non-null argument is required whether or not it has a default
isRequiredArgument_IgnoresDefault(arg) == isNonNullType(arg.type)

\* mutant: an argument without default is required whatever its type
isRequiredArgument_IgnoresType(arg) == arg.defaultValue = Undef

\* arg.type is non-null and arg.defaultValue === undefined
isRequiredArgument(arg) ==
  isNonNullType(arg.type) /\ arg.defaultValue = Undef

typeKindName(type) ==
  CASE type.kind = "Scalar" -> "a Scalar type"
    [] type.kind = "Object" -> "an Object type"
    [] type.kind = "Interface" -> "an Interface type"
    [] type.kind = "Union" -> "a Union type"
    [] type.kind = "Enum" -> "an Enum type"
    [] type.kind = "Input" -> "an Input type"

\* mutant: the removed type's own position is reported as loc
findRemovedTypes_OldLocation(oldTypeMap, newTypeMap) ==
  Flatten([i \in 1..Len(oldTypeMap) |->
    LET oldType == oldTypeMap[i]
        typeName == oldType.name
    IN  IF \/ isIntrospectionType(oldType)
           \/ isSpecifiedScalarType(oldType)
           \/ startsWith(typeName, "__")
        THEN <<>>
        ELSE IF typeOfName(newTypeMap, typeName) = NoType
        THEN << [loc |-> getLocation(oldType.astNode),
                 message |-> "'" \o typeName \o "' removed from schema",
                 resourceName |-> typeName,
                 type |-> "TYPE_REMOVED",
                 wasDeprecated |-> isDeprecated(oldType.astNode)] >>
        ELSE <<>>])

findRemovedTypes(oldTypeMap, newTypeMap) ==
  Flatten([i \in 1..Len(oldTypeMap) |->
    LET oldType == oldTypeMap[i]
        typeName == oldType.name
    IN  IF \/ isIntrospectionType(oldType)
           \/ isSpecifiedScalarType(oldType)
           \/ startsWith(typeName, "__")
        THEN <<>>
        ELSE IF typeOfName(newTypeMap, typeName) = NoType
        THEN << [loc |-> Undefined,
                 message |-> "'" \o typeName \o "' removed from schema",
                 resourceName |-> typeName,
                 type |-> "TYPE_REMOVED",
                 wasDeprecated |-> isDeprecated(oldType.astNode)] >>
        ELSE <<>>])

\* mutant: a removed field is reported at its own position in the old schema
findFieldsThatChangedTypeOnObjectOrInterfaceType_OldFieldLocation(typeName, oldType, newType) ==
  LET oldTypeFieldsDef == oldType.fields
      newTypeFieldsDef == newType.fields
  IN  Flatten([k \in 1..Len(oldTypeFieldsDef) |->
        LET oldField == oldTypeFieldsDef[k]
            fieldName == oldField.name
        IN  IF ~hasName(newTypeFieldsDef, fieldName)
            THEN << [loc |-> getLocation(oldField.astNode),
                     resourceName |-> typeName \o "." \o fieldName,
                     type |-> "FIELD_REMOVED",
                     message |-> "'" \o typeName \o "." \o fieldName
                                   \o "' removed from schema",
                     wasDeprecated |-> isDeprecated(oldField.astNode)] >>
            ELSE
              LET newField == byName(newTypeFieldsDef, fieldName)
                  oldFieldType == oldField.type
                  newFieldType == newField.type
                  isSafe == isChangeSafeForObjectOrInterfaceField(oldFieldType,
                                                                  newFieldType)
              IN  IF ~isSafe
                  THEN << [loc |-> getLocation(newField.astNode),
                           message |-> "Field '" \o typeName \o "." \o fieldName
                                         \o "' changed type from '"
                                         \o typeToString(oldFieldType)
                                         \o "' to '"
                                         \o typeToString(newFieldType) \o "'",
                           resourceName |-> typeName \o "." \o fieldName,
                           type |-> "FIELD_CHANGED_KIND",
                           wasDeprecated |-> isDeprecated(oldField.astNode)] >>
                  ELSE <<>>])

findFieldsThatChangedTypeOnObjectOrInterfaceType(typeName, oldType, newType) ==
  LET oldTypeFieldsDef == oldType.fields
      newTypeFieldsDef == newType.fields
  IN  Flatten([k \in 1..Len(oldTypeFieldsDef) |->
        LET oldField == oldTypeFieldsDef[k]
            fieldName == oldField.name
        IN  IF ~hasName(newTypeFieldsDef, fieldName)
            THEN << [loc |-> getLocation(newType.astNode),
                     resourceName |-> typeName \o "." \o fieldName,
                     type |-> "FIELD_REMOVED",
                     message |-> "'" \o typeName \o "." \o fieldName
                                   \o "' removed from schema",
                     wasDeprecated |-> isDeprecated(oldField.astNode)] >>
            ELSE
              LET newField == byName(newTypeFieldsDef, fieldName)
                  oldFieldType == oldField.type
                  newFieldType == newField.type
                  isSafe == isChangeSafeForObjectOrInterfaceField(oldFieldType,
                                                                  newFieldType)
              IN  IF ~isSafe
                  THEN << [loc |-> getLocation(newField.astNode),
                           message |-> "Field '" \o typeName \o "." \o fieldName
                                         \o "' changed type from '"
                                         \o typeToString(oldFieldType)
                                         \o "' to '"
                                         \o typeToString(newFieldType) \o "'",
                           resourceName |-> typeName \o "." \o fieldName,
                           type |-> "FIELD_CHANGED_KIND",
                           wasDeprecated |-> isDeprecated(oldField.astNode)] >>
                  ELSE <<>>])

\* mutant: a move between Object and Interface is reported as any kind change
findTypesThatChangedKind_NoSpecialCase(oldTypeMap, newTypeMap) ==
  Flatten([i \in 1..Len(oldTypeMap) |->
    LET oldType == oldTypeMap[i]
        typeName == oldType.name
        newType == typeOfName(newTypeMap, typeName)
    IN  IF newType = NoType THEN <<>>
        ELSE IF oldType.kind # newType.kind
        THEN << [loc |-> getLocation(newType.astNode),
                 message |-> "'" \o typeName \o "' changed from "
                               \o typeKindName(oldType) \o " to "
                               \o typeKindName(newType),
                 resourceName |-> typeName,
                 type |-> "TYPE_CHANGED_KIND",
                 wasDeprecated |-> isDeprecated(oldType.astNode)] >>
        ELSE <<>>])

findTypesThatChangedKind(oldTypeMap, newTypeMap) ==
  Flatten([i \in 1..Len(oldTypeMap) |->
    LET oldType == oldTypeMap[i]
        typeName == oldType.name
        newType == typeOfName(newTypeMap, typeName)
    IN  IF newType = NoType THEN <<>>
        ELSE IF oldType.kind # newType.kind
        THEN IF \/ (isObjectType(oldType) /\ isInterfaceType(newType))
                \/ (isInterfaceType(oldType) /\ isObjectType(newType))
             THEN findFieldsThatChangedTypeOnObjectOrInterfaceType(
                    typeName, oldType, newType)
             ELSE << [loc |-> getLocation(newType.astNode),
                      message |-> "'" \o typeName \o "' changed from "
                                    \o typeKindName(oldType) \o " to "
                                    \o typeKindName(newType),
                      resourceName |-> typeName,
                      type |-> "TYPE_CHANGED_KIND",
                      wasDeprecated |-> isDeprecated(oldType.astNode)] >>
        ELSE <<>>])

\* mutant: a type that moves between Object and Interface is compared too
sameObjectOrInterfaceKind_EitherKind(oldType, newType) ==
  /\ isObjectType(oldType) \/ isInterfaceType(oldType)
  /\ isObjectType(newType) \/ isInterfaceType(newType)

\* mutant: every pair of types of one kind is compared, input objects too
sameObjectOrInterfaceKind_AnyKind(oldType, newType) ==
  newType.kind = oldType.kind

\* mutant: only Object types are compared, Interface types are skipped
sameObjectOrInterfaceKind_ObjectsOnly(oldType, newType) ==
  isObjectType(oldType) /\ isObjectType(newType)

\* the guard shared by the field pass and the argument pass
sameObjectOrInterfaceKind(oldType, newType) ==
  ~ \/ ~(isObjectType(oldType) \/ isInterfaceType(oldType))
    \/ ~(isObjectType(newType) \/ isInterfaceType(newType))
    \/ newType.kind # oldType.kind

findFieldsThatChangedTypeOnObjectOrInterfaceTypes(oldTypeMap, newTypeMap) ==
  Flatten([i \in 1..Len(oldTypeMap) |->
    LET oldType == oldTypeMap[i]
        typeName == oldType.name
        newType == typeOfName(newTypeMap, typeName)
    IN  IF ~sameObjectOrInterfaceKind(oldType, newType) THEN <<>>
        ELSE findFieldsThatChangedTypeOnObjectOrInterfaceType(
               typeName, oldType, newType)])

\* '<Type>.<field>' arg '<arg>', the head of the messages about an old arg
argPath(oldType, fieldName, oldArgDef) ==
  "'" \o oldType.name \o "." \o fieldName \o "' arg '" \o oldArgDef.name \o "'"

\* mutant: the removed argument's own position is reported as loc
argRemoved_ArgLocation(oldType, fieldName, oldArgDef, newField) ==
  [loc |-> getLocation(oldArgDef.astNode),
   message |-> argPath(oldType, fieldName, oldArgDef) \o " removed from schema",
   resourceName |-> fieldName \o "." \o oldArgDef.name,
   type |-> "ARG_REMOVED",
   wasDeprecated |-> isDeprecated(oldArgDef.astNode)]

\* the change pushed for an old argument the new field lacks
argRemoved(oldType, fieldName, oldArgDef, newField) ==
  [loc |-> getLocation(newField.astNode),
   message |-> argPath(oldType, fieldName, oldArgDef) \o " removed from schema",
   resourceName |-> fieldName \o "." \o oldArgDef.name,
   type |-> "ARG_REMOVED",
   wasDeprecated |-> isDeprecated(oldArgDef.astNode)]

\* mutant: the old type is not looked at
becameRequired_IgnoresOld(oldArgDef, newArgDef) ==
  /\ oldArgDef.name = newArgDef.name
  /\ isNonNullType(newArgDef.type)

becameRequired(oldArgDef, newArgDef) ==
  /\ oldArgDef.name = newArgDef.name
  /\ isNonNullType(newArgDef.type)
  /\ ~isNonNullType(oldArgDef.type)

\* the change pushed for an argument whose type change is not safe
argTypeChanged(oldType, fieldName, oldArgDef, newArgDef) ==
  LET wasRequiredByDirective == "required" \in oldArgDef.astNode.directives
  IN  [loc |-> getLocation(newArgDef.astNode),
       message |-> argPath(oldType, fieldName, oldArgDef)
                     \o " changed type from '" \o typeToString(oldArgDef.type)
                     \o "' to '" \o typeToString(newArgDef.type) \o "'",
       resourceName |-> fieldName \o "." \o oldArgDef.name,
       type |-> IF becameRequired(oldArgDef, newArgDef)
                THEN "ARG_BECAME_REQUIRED" ELSE "ARG_CHANGED_KIND",
       wasDeprecated |-> isDeprecated(oldArgDef.astNode),
       wasRequiredByDirective |-> wasRequiredByDirective]

\* the change pushed for an argument whose default value changed
argDefaultValueChanged(oldType, fieldName, oldArgDef, newArgDef) ==
  [loc |-> getLocation(newArgDef.astNode),
   resourceName |-> fieldName \o "." \o oldArgDef.name,
   type |-> "ARG_DEFAULT_VALUE_CHANGE",
   message |-> argPath(oldType, fieldName, oldArgDef)
                 \o " has changed defaultValue",
   wasDeprecated |-> isDeprecated(oldType.astNode)]

\* the changes findArgChanges pushes for one old argument
oldArgChanges(oldType, typeName, fieldName, oldArgDef, newField) ==
  LET newArgs == newField.args
  IN  IF ~hasName(newArgs, oldArgDef.name)
      THEN [breaking |-> << argRemoved(oldType, fieldName, oldArgDef,
                                       newField) >>,
            dangerous |-> <<>>]
      ELSE
        LET newArgDef == byName(newArgs, oldArgDef.name)
            isSafe == isChangeSafeForInputObjectFieldOrFieldArg(oldArgDef.type,
                                                                newArgDef.type)
        IN  IF ~isSafe
            THEN [breaking |-> << argTypeChanged(oldType, fieldName, oldArgDef,
                                                 newArgDef) >>,
                  dangerous |-> <<>>]
            ELSE IF /\ oldArgDef.defaultValue # Undef
                    /\ ~isDefaultValueEqual(oldArgDef.defaultValue,
                                            newArgDef.defaultValue)
            THEN [breaking |-> <<>>,
                  dangerous |-> << argDefaultValueChanged(oldType, fieldName,
                                                          oldArgDef,
                                                          newArgDef) >>]
            ELSE [breaking |-> <<>>, dangerous |-> <<>>]

\* mutant: an added optional argument is pushed to the breaking list
newArgChanges_OptionalIsBreaking(typeName, fieldName, oldField, newArgDef) ==
  LET oldArgs == oldField.args
      argName == newArgDef.name
  IN  IF hasName(oldArgs, newArgDef.name)
      THEN [breaking |-> <<>>, dangerous |-> <<>>]
      ELSE [breaking |->
              << [loc |-> getLocation(newArgDef.astNode),
                  resourceName |-> typeName \o "." \o fieldName,
                  type |-> IF isRequiredArgument(newArgDef)
                           THEN "REQUIRED_ARG_ADDED" ELSE "OPTIONAL_ARG_ADDED",
                  message |-> (IF isRequiredArgument(newArgDef)
                               THEN "A required arg '" ELSE "An optional arg '")
                                \o argName \o "' on '"
                                \o typeName \o "." \o fieldName \o "' was added",
                  wasDeprecated |-> isDeprecated(oldField.astNode)] >>,
            dangerous |-> <<>>]

\* the changes findArgChanges pushes for one new argument
newArgChanges(typeName, fieldName, oldField, newArgDef) ==
  LET oldArgs == oldField.args
      argName == newArgDef.name
  IN  IF hasName(oldArgs, newArgDef.name)
      THEN [breaking |-> <<>>, dangerous |-> <<>>]
      ELSE IF isRequiredArgument(newArgDef)
      THEN [breaking |->
              << [loc |-> getLocation(newArgDef.astNode),
                  resourceName |-> typeName \o "." \o fieldName,
                  type |-> "REQUIRED_ARG_ADDED",
                  message |-> "A required arg '" \o argName \o "' on '"
                                \o typeName \o "." \o fieldName \o "' was added",
                  wasDeprecated |-> isDeprecated(oldField.astNode)] >>,
            dangerous |-> <<>>]
      ELSE [breaking |-> <<>>,
            dangerous |->
              << [loc |-> getLocation(newArgDef.astNode),
                  resourceName |-> typeName \o "." \o fieldName,
                  type |-> "OPTIONAL_ARG_ADDED",
                  message |-> "An optional arg '" \o argName \o "' on '"
                                \o typeName \o "." \o fieldName \o "' was added",
                  wasDeprecated |-> isDeprecated(oldField.astNode)] >>]

\* the pushes of findArgChanges in order, one record per argument visited
\* mutant: for each field the added arguments are visited before the old ones
argPushes_NewArgsFirst(oldTypeMap, newTypeMap) ==
  Flatten([i \in 1..Len(oldTypeMap) |->
    LET oldType == oldTypeMap[i]
        typeName == oldType.name
        newType == typeOfName(newTypeMap, typeName)
    IN  IF ~sameObjectOrInterfaceKind(oldType, newType) THEN <<>>
        ELSE
          LET oldTypeFields == oldType.fields
              newTypeFields == newType.fields
          IN  Flatten([k \in 1..Len(oldTypeFields) |->
                LET oldField == oldTypeFields[k]
                    fieldName == oldField.name
                IN  IF ~hasName(newTypeFields, fieldName) THEN <<>>
                    ELSE
                      LET newField == byName(newTypeFields, fieldName)
                      IN  [a \in 1..Len(newField.args) |->
                             newArgChanges(typeName, fieldName, oldField,
                                           newField.args[a])]
                          \o
                          [a \in 1..Len(oldField.args) |->
                             oldArgChanges(oldType, typeName, fieldName,
                                           oldField.args[a], newField)]])])

argPushes(oldTypeMap, newTypeMap) ==
  Flatten([i \in 1..Len(oldTypeMap) |->
    LET oldType == oldTypeMap[i]
        typeName == oldType.name
        newType == typeOfName(newTypeMap, typeName)
    IN  IF ~sameObjectOrInterfaceKind(oldType, newType) THEN <<>>
        ELSE
          LET oldTypeFields == oldType.fields
              newTypeFields == newType.fields
          IN  Flatten([k \in 1..Len(oldTypeFields) |->
                LET oldField == oldTypeFields[k]
                    fieldName == oldField.name
                IN  IF ~hasName(newTypeFields, fieldName) THEN <<>>
                    ELSE
                      LET newField == byName(newTypeFields, fieldName)
                      IN  [a \in 1..Len(oldField.args) |->
                             oldArgChanges(oldType, typeName, fieldName,
                                           oldField.args[a], newField)]
                          \o
                          [a \in 1..Len(newField.args) |->
                             newArgChanges(typeName, fieldName, oldField,
                                           newField.args[a])]])])

findArgChanges(oldTypeMap, newTypeMap) ==
  LET pushes == argPushes(oldTypeMap, newTypeMap)
  IN  [breakingChanges |->
         Flatten([p \in 1..Len(pushes) |-> pushes[p].breaking]),
       dangerousChanges |->
         Flatten([p \in 1..Len(pushes) |-> pushes[p].dangerous])]

\* mutant: the old enum's position is reported as loc
findValuesRemovedFromEnums_OldLocation(oldTypeMap, newTypeMap) ==
  Flatten([i \in 1..Len(oldTypeMap) |->
    LET oldType == oldTypeMap[i]
        typeName == oldType.name
        newType == typeOfName(newTypeMap, typeName)
    IN  IF ~isEnumType(oldType) \/ ~isEnumType(newType) THEN <<>>
        ELSE
          LET valuesInNewEnum == { newType.values[v].name :
                                     v \in 1..Len(newType.values) }
          IN  Flatten([v \in 1..Len(oldType.values) |->
                LET value == oldType.values[v]
                IN  IF value.name \notin valuesInNewEnum
                    THEN << [loc |-> getLocation(oldType.astNode),
                             resourceName |-> typeName \o "." \o value.name,
                             type |-> "VALUE_REMOVED_FROM_ENUM",
                             message |-> "Value '" \o value.name
                                           \o "' removed from enum '"
                                           \o typeName \o "'",
                             wasDeprecated |-> isDeprecated(value.astNode)] >>
                    ELSE <<>>])])

findValuesRemovedFromEnums(oldTypeMap, newTypeMap) ==
  Flatten([i \in 1..Len(oldTypeMap) |->
    LET oldType == oldTypeMap[i]
        typeName == oldType.name
        newType == typeOfName(newTypeMap, typeName)
    IN  IF ~isEnumType(oldType) \/ ~isEnumType(newType) THEN <<>>
        ELSE
          LET valuesInNewEnum == { newType.values[v].name :
                                     v \in 1..Len(newType.values) }
          IN  Flatten([v \in 1..Len(oldType.values) |->
                LET value == oldType.values[v]
                IN  IF value.name \notin valuesInNewEnum
                    THEN << [loc |-> getLocation(newType.astNode),
                             resourceName |-> typeName \o "." \o value.name,
                             type |-> "VALUE_REMOVED_FROM_ENUM",
                             message |-> "Value '" \o value.name
                                           \o "' removed from enum '"
                                           \o typeName \o "'",
                             wasDeprecated |-> isDeprecated(value.astNode)] >>
                    ELSE <<>>])])

(***************************************************************************)
(* The schema texts given to detectBreakingChanges.  A text either fails   *)
(* to parse or holds a sequence of definitions.  The pairs drawn vary one  *)
(* aspect of a schema at a time, each aspect over its full product.        *)
(***************************************************************************)
Malformed == [ok |-> FALSE, doc |-> <<>>]

Text(doc) == [ok |-> TRUE, doc |-> doc]

\* the type references with at most d list wrappers, NonNull never on NonNull
RECURSIVE NullableRefs(_, _)
NullableRefs(names, d) ==
  { Named(n) : n \in names }
    \cup (IF d = 0 THEN {}
          ELSE LET inner == NullableRefs(names, d - 1)
               IN  { List(t) : t \in inner \cup { NonNull(u) : u \in inner } })

TypeRefs(names, d) ==
  NullableRefs(names, d) \cup { NonNull(t) : t \in NullableRefs(names, d) }

\* the subsequences of s
RECURSIVE SubSeqs(_)
SubSeqs(s) ==
  IF s = <<>> THEN { <<>> }
  ELSE LET rest == SubSeqs(Tail(s))
       IN  rest \cup { <<Head(s)>> \o r : r \in rest }

\* the sequences over S of length at most n
RECURSIVE SeqsUpTo(_, _)
SeqsUpTo(S, n) ==
  IF n = 0 THEN { <<>> }
  ELSE LET shorter == SeqsUpTo(S, n - 1)
       IN  shorter \cup { <<x>> \o r : x \in S, r \in { q \in shorter : Len(q) = n - 1 } }

Field(name, typeName) == FieldDef(name, Named(typeName), <<>>, {})

Arg(name, type, defaultValue) == ArgDef(name, type, defaultValue, {})

QueryDef ==
  ObjectDef("Query",
            << FieldDef("user", Named("String"),
                        << Arg("id", Named("String"), Undef) >>, {}) >>)

\* --- kinds and presence of types: Query, a type User, a type Status -------
UserFields ==
  << Field("id", "String"),
     FieldDef("age", Named("Int"),
              << Arg("unit", Named("String"), Str("y")) >>, {}) >>

UserDefs ==
  { <<>>,
    << ScalarDef("User") >>,
    << ObjectDef("User", SubSeq(UserFields, 1, 1)) >>,
    << ObjectDef("User", UserFields) >>,
    << InterfaceDef("User", SubSeq(UserFields, 1, 1)) >>,
    << InterfaceDef("User", UserFields) >>,
    << UnionDef("User", << "Query" >>) >>,
    << EnumDef("User", << ValueDef("A", {}), ValueDef("B", {}) >>) >>,
    << InputDef("User", << Field("x", "String") >>) >>,
    << InputDef("User", << Field("x", "String"),
                           FieldDef("y", NonNull(Named("Int")), <<>>, {}) >>) >> }

StatusDefs ==
  { <<>>,
    << EnumDef("Status", << ValueDef("ACTIVE", {}), ValueDef("INACTIVE", {}) >>) >>,
    << EnumDef("Status", << ValueDef("ACTIVE", {}) >>) >>,
    << ObjectDef("Status", << Field("value", "String"), Field("id", "ID") >>) >>,
    << ObjectDef("Status", << Field("value", "String") >>) >>,
    << ScalarDef("__Meta") >> }

KindTexts == { Text(<<QueryDef>> \o u \o s) : u \in UserDefs, s \in StatusDefs }

\* --- the field set of one Object or Interface type ------------------------
FieldPool ==
  << Field("id", "String"), Field("name", "String"), Field("age", "Int"),
     Field("email", "String"), Field("score", "Float") >>

FieldSetTexts ==
  { Text(<< TypeDef("User", k, fs, <<>>, <<>>, {}) >>) :
      k \in {"Object", "Interface"},
      fs \in SubSeqs(SubSeq(FieldPool, 1, MaxFields)) }

\* --- the type of one field ------------------------------------------------
FieldTypeTexts ==
  { Text(<< ObjectDef("User", << FieldDef("id", t, <<>>, {}) >>) >>) :
      t \in TypeRefs({"String", "Int"}, MaxListDepth) }

\* --- the type of one argument, with or without a default ------------------
ArgTypeTexts ==
  { Text(<< ScalarDef("JSON"), ScalarDef("Date"),
            ObjectDef("Query",
                      << FieldDef("user", Named("String"),
                                  << Arg("id", t, d) >>, {}) >>) >>) :
      t \in TypeRefs({"JSON", "Date"}, MaxListDepth),
      d \in { Undef, Arr(<<>>) } }

\* --- the default value of one argument of a custom scalar type ------------
Prims == { Str("a"), Num("1") }

ObjectValues ==
  { Obj(<<>>) }
    \cup { Obj(<< <<k, x>> >>) : k \in {"p", "q"}, x \in Prims }
    \cup { Obj(<< <<k[1], x>>, <<k[2], y>> >>) :
             k \in { <<"p", "q">>, <<"q", "p">> }, x \in Prims, y \in Prims }

NestedValues ==
  { Arr(<< Null >>), Arr(<< Arr(<< Str("a") >>) >>),
    Arr(<< Obj(<< <<"p", Str("a")>> >>) >>),
    Obj(<< <<"p", Arr(<< Str("a") >>)>> >>),
    Obj(<< <<"p", Obj(<< <<"p", Str("a")>>, <<"q", Num("1")>> >>)>> >>),
    Obj(<< <<"p", Obj(<< <<"q", Num("1")>>, <<"p", Str("a")>> >>)>> >>) }

DefaultValues ==
  { Undef, Null, Str("1") } \cup Prims
    \cup { Arr(items) : items \in SeqsUpTo(Prims, MaxLen) }
    \cup ObjectValues \cup NestedValues

DefaultTexts ==
  { Text(<< ScalarDef("JSON"),
            ObjectDef("Query",
                      << FieldDef("user", Named("String"),
                                  << Arg("id", Named("JSON"), d) >>, {}) >>) >>) :
      d \in DefaultValues }

\* --- the argument list of one field ---------------------------------------
ArgListTexts ==
  LET argLists ==
        { a \o b \o c :
            a \in { <<>>, << Arg("id", Named("String"), Undef) >> },
            b \in { <<>> } \cup
                  { << Arg("name", t, d) >> :
                      t \in { Named("String"), NonNull(Named("String")) },
                      d \in { Undef, Str("x") } },
            c \in { <<>>, << Arg("limit", NonNull(Named("Int")), Undef) >> } }
  IN  { Text(<< ObjectDef("Query",
                          << FieldDef("user", Named("String"), args, {}) >>) >>) :
          args \in argLists }

\* --- the values of two enums ----------------------------------------------
EnumTexts ==
  LET statusValues == << ValueDef("ACTIVE", {}), ValueDef("INACTIVE", {}),
                         ValueDef("PENDING", {}) >>
      roleValues == << ValueDef("ADMIN", {}), ValueDef("USER", {}) >>
  IN  { Text(<< EnumDef("Status", sv), EnumDef("Role", rv) >>) :
          sv \in SubSeqs(statusValues) \ { <<>> },
          rv \in SubSeqs(roleValues) \ { <<>> } }

\* --- deprecated fields, arguments and enum values --------------------------
\* (the directive is not allowed on a type definition: such a text does not
\* build)
DeprecatedTexts ==
  LET argLists ==
        { << ArgDef("id", Named("String"), Undef, {"deprecated"}),
             ArgDef("first", Named("Int"), Num("1"), {"deprecated"}) >>,
          << Arg("first", Named("Int"), Num("2")) >>,
          << Arg("id", Named("Int"), Undef),
             ArgDef("first", Named("Int"), Num("1"), {"deprecated"}),
             Arg("after", NonNull(Named("String")), Undef) >> }
  IN  { Text(<< ObjectDef("Query",
                          << FieldDef("user", Named("String"), args, d) >>
                            \o old),
                EnumDef("Status", << ValueDef("ACTIVE", {}) >> \o inactive) >>) :
          args \in argLists,
          d \in { {}, {"deprecated"} },
          old \in { <<>>,
                    << FieldDef("legacy", Named("String"), <<>>,
                                {"deprecated"}) >>,
                    << Field("legacy", "Int") >> },
          inactive \in { <<>>, << ValueDef("INACTIVE", {"deprecated"}) >>,
                         << ValueDef("INACTIVE", {}) >> } }

\* --- a type that moves between Object and Interface while the arguments ---
\* --- of its field change -------------------------------------------------
MovedTexts ==
  LET argLists ==
        { << Arg("unit", Named("String"), Str("y")) >>,
          << Arg("unit", NonNull(Named("Int")), Undef) >>,
          << Arg("scale", NonNull(Named("Int")), Undef),
             Arg("round", Named("Boolean"), Undef) >> }
  IN  { Text(<< TypeDef("User", k,
                        << FieldDef("age", Named("Int"), args, {}) >> \o extra,
                        <<>>, <<>>, {}) >>) :
          k \in {"Object", "Interface"},
          args \in argLists,
          extra \in { <<>>, << Field("id", "String") >> } }

\* --- the fields of an input object and the members of a union -------------
InputUnionTexts ==
  { Text(<< QueryDef,
            ObjectDef("A", << Field("id", "String") >>),
            ObjectDef("B", << Field("id", "String") >>),
            InputDef("Filter", fs),
            UnionDef("Thing", ms) >>) :
      fs \in { << Field("x", "String"), Field("z", "String") >>,
               << FieldDef("x", Named("Int"), <<>>, {}),
                  FieldDef("y", NonNull(Named("Int")), <<>>, {}) >>,
               << Field("x", "String") >> },
      ms \in { << "A", "B" >>, << "A" >>, << "B", "A" >> } }

\* --- texts that differ in every aspect at once -----------------------------
MixedOld ==
  << ScalarDef("Old"),
     ObjectDef("Query",
               << FieldDef("user", Named("String"),
                           << Arg("id", Named("String"), Undef),
                              Arg("name", Named("String"), Str("x")),
                              Arg("first", Named("Int"), Num("1")),
                              Arg("tag", Named("String"), Undef) >>, {}),
                  Field("posts", "Int") >>),
     ObjectDef("User", << Field("id", "String"), Field("age", "Int"),
                          Field("email", "String") >>),
     EnumDef("Status", << ValueDef("ACTIVE", {}), ValueDef("INACTIVE", {}) >>),
     UnionDef("Thing", << "Query" >>) >>

MixedNew ==
  << ObjectDef("Query",
               << FieldDef("user", Named("String"),
                           << Arg("id", NonNull(Named("String")), Undef),
                              Arg("first", Named("Int"), Num("2")),
                              Arg("tag", Named("Int"), Undef),
                              Arg("limit", NonNull(Named("Int")), Undef),
                              Arg("after", Named("String"), Undef) >>, {}),
                  Field("posts", "String") >>),
     InterfaceDef("User", << Field("id", "String") >>),
     EnumDef("Status", << ValueDef("ACTIVE", {}) >>),
     ScalarDef("Thing") >>

MixedTexts == { Text(MixedOld), Text(MixedNew) }

\* --- a text that does not parse -------------------------------------------
ParseFailurePairs ==
  { <<Malformed, Text(<<QueryDef>>)>>, <<Text(<<QueryDef>>), Malformed>>,
    <<Malformed, Malformed>> }

InputPairs ==
  (KindTexts \X KindTexts) \cup (FieldSetTexts \X FieldSetTexts)
    \cup (FieldTypeTexts \X FieldTypeTexts) \cup (ArgTypeTexts \X ArgTypeTexts)
    \cup (DefaultTexts \X DefaultTexts) \cup (ArgListTexts \X ArgListTexts)
    \cup (EnumTexts \X EnumTexts) \cup (MixedTexts \X MixedTexts)
    \cup (DeprecatedTexts \X DeprecatedTexts)
    \cup (MovedTexts \X MovedTexts)
    \cup (InputUnionTexts \X InputUnionTexts)
    \cup ParseFailurePairs

(***************************************************************************)
(* detectBreakingChanges(from, to), one step per call it makes.            *)
(***************************************************************************)
NoArgChanges == [breakingChanges |-> <<>>, dangerousChanges |-> <<>>]

\* no program around the call: detectBreakingChanges is called directly
NoHost ==
  /\ env = [program |-> "none", argc |-> 2, fromSource |-> "ok",
            toSource |-> "ok"]
  /\ step = "none"
  /\ idx = 0
  /\ caught = ""
  /\ calls = <<>>
  /\ exitCode = <<>>

Init ==
  /\ \E pair \in InputPairs : from = pair[1] /\ to = pair[2]
  /\ fromSchema = <<>>
  /\ toSchema = <<>>
  /\ pc = "start"
  /\ argChanges = NoArgChanges
  /\ breakingChanges = <<>>
  /\ dangerousChanges = <<>>
  /\ NoHost

\* const fromSchema = buildSchema(from)
BuildFromSchema ==
  /\ pc = "start"
  /\ \/ /\ from.ok
        /\ fromSchema' = buildSchema(from)
        /\ pc' = "fromBuilt"
     \/ /\ ~from.ok
        /\ pc' = "threw"
        /\ UNCHANGED fromSchema
  /\ UNCHANGED <<from, to, toSchema, argChanges, breakingChanges,
                 dangerousChanges>>
  /\ UNCHANGED host

\* mutant: a text that does not parse is taken as an empty schema
BuildToSchema_IgnoresFailure ==
  /\ pc = "fromBuilt"
  /\ \/ /\ to.ok
        /\ toSchema' = buildSchema(to)
        /\ pc' = "built"
     \/ /\ ~to.ok
        /\ pc' = "built"
        /\ UNCHANGED toSchema
  /\ UNCHANGED <<from, to, fromSchema, argChanges, breakingChanges,
                 dangerousChanges>>
  /\ UNCHANGED host

\* const toSchema = buildSchema(to)
BuildToSchema ==
  /\ pc = "fromBuilt"
  /\ \/ /\ to.ok
        /\ toSchema' = buildSchema(to)
        /\ pc' = "built"
     \/ /\ ~to.ok
        /\ pc' = "threw"
        /\ UNCHANGED toSchema
  /\ UNCHANGED <<from, to, fromSchema, argChanges, breakingChanges,
                 dangerousChanges>>
  /\ UNCHANGED host

\* const argChanges = findArgChanges(fromSchema, toSchema)
FindArgChanges ==
  /\ pc = "built"
  /\ argChanges' = findArgChanges(fromSchema, toSchema)
  /\ pc' = "argChanges"
  /\ UNCHANGED <<from, to, fromSchema, toSchema, breakingChanges,
                 dangerousChanges>>
  /\ UNCHANGED host

\* breakingChanges = [...findRemovedTypes(fromSchema, toSchema),
FindRemovedTypes ==
  /\ pc = "argChanges"
  /\ breakingChanges' = findRemovedTypes(fromSchema, toSchema)
  /\ pc' = "removedTypes"
  /\ UNCHANGED <<from, to, fromSchema, toSchema, argChanges, dangerousChanges>>
  /\ UNCHANGED host

\* mutant: the kind changes are put before the removed types
FindTypesThatChangedKind_Prepends ==
  /\ pc = "removedTypes"
  /\ breakingChanges' =
       findTypesThatChangedKind(fromSchema, toSchema) \o breakingChanges
  /\ pc' = "changedKind"
  /\ UNCHANGED <<from, to, fromSchema, toSchema, argChanges, dangerousChanges>>
  /\ UNCHANGED host

\* ...findTypesThatChangedKind(fromSchema, toSchema),
FindTypesThatChangedKind ==
  /\ pc = "removedTypes"
  /\ breakingChanges' =
       breakingChanges \o findTypesThatChangedKind(fromSchema, toSchema)
  /\ pc' = "changedKind"
  /\ UNCHANGED <<from, to, fromSchema, toSchema, argChanges, dangerousChanges>>
  /\ UNCHANGED host

\* ...findFieldsThatChangedTypeOnObjectOrInterfaceTypes(fromSchema, toSchema),
FindFieldsThatChangedType ==
  /\ pc = "changedKind"
  /\ breakingChanges' =
       breakingChanges
         \o findFieldsThatChangedTypeOnObjectOrInterfaceTypes(fromSchema,
                                                              toSchema)
  /\ pc' = "fields"
  /\ UNCHANGED <<from, to, fromSchema, toSchema, argChanges, dangerousChanges>>
  /\ UNCHANGED host

\* ...argChanges.breakingChanges,
SpreadArgBreakingChanges ==
  /\ pc = "fields"
  /\ breakingChanges' = breakingChanges \o argChanges.breakingChanges
  /\ pc' = "args"
  /\ UNCHANGED <<from, to, fromSchema, toSchema, argChanges, dangerousChanges>>
  /\ UNCHANGED host

\* ...findValuesRemovedFromEnums(fromSchema, toSchema)]
FindValuesRemovedFromEnums ==
  /\ pc = "args"
  /\ breakingChanges' =
       breakingChanges \o findValuesRemovedFromEnums(fromSchema, toSchema)
  /\ pc' = "enums"
  /\ UNCHANGED <<from, to, fromSchema, toSchema, argChanges, dangerousChanges>>
  /\ UNCHANGED host

\* dangerousChanges = [...argChanges.dangerousChanges]; return both lists
Return ==
  /\ pc = "enums"
  /\ dangerousChanges' = argChanges.dangerousChanges
  /\ pc' = "done"
  /\ UNCHANGED <<from, to, fromSchema, toSchema, argChanges, breakingChanges>>
  /\ UNCHANGED host

Next ==
  \/ BuildFromSchema
  \/ BuildToSchema
  \/ FindArgChanges
  \/ FindRemovedTypes
  \/ FindTypesThatChangedKind
  \/ FindFieldsThatChangedType
  \/ SpreadArgBreakingChanges
  \/ FindValuesRemovedFromEnums
  \/ Return

Spec == Init /\ [][Next]_vars

(***************************************************************************)
(* What the two programs around detectBreakingChanges are given, and the   *)
(* conversions they apply to its result.                                   *)
(***************************************************************************)
\* the pairs of texts the programs are run on
HostPairs ==
  (KindTexts \X KindTexts) \cup (ArgListTexts \X ArgListTexts)
    \cup (MixedTexts \X MixedTexts) \cup ParseFailurePairs

\* core.getInput('schema') and core.getInput('base_ref')
schemaPath == "schema.graphql"

baseRef == "main"

\* the messages of the errors the programs can catch
ReadError == "ENOENT: no such file or directory, open 'schema.graphql'"

RequestError == "Not Found"

SyntaxError == "Syntax Error: Unexpected Name"

TypeError == "Cannot read properties of undefined (reading 'split')"

\* str.split(':'): the parts before and after the first ':'
split(str) ==
  LET c == CHOOSE i \in 1..Len(str) :
             /\ SubSeq(str, i, i) = ":"
             /\ \A j \in 1..(i - 1) : SubSeq(str, j, j) # ":"
  IN  << SubSeq(str, 1, c - 1), SubSeq(str, c + 1, Len(str)) >>

\* Number(str) for a string of decimal digits
RECURSIVE Number(_)
Number(str) ==
  IF str = "" THEN 0
  ELSE Number(SubSeq(str, 1, Len(str) - 1)) * 10
         + (CHOOSE d \in 0..9 : ToString(d) = SubSeq(str, Len(str), Len(str)))

\* { file, startLine: line || undefined, startColumn: col || undefined }: a
\* property that is undefined is left out of the record
annotationProperties(loc) ==
  LET line == Number(split(loc)[1])
      col == Number(split(loc)[2])
  IN  [file |-> schemaPath]
        @@ (IF line # 0 THEN [startLine |-> line] ELSE <<>>)
        @@ (IF col # 0 THEN [startColumn |-> col] ELSE <<>>)

\* the categories whose object literal puts message before resourceName
MessageFirst ==
  {"TYPE_REMOVED", "TYPE_CHANGED_KIND", "FIELD_CHANGED_KIND", "ARG_REMOVED",
   "ARG_BECAME_REQUIRED", "ARG_CHANGED_KIND"}

quoted(str) == "\"" \o str \o "\""

\* JSON.stringify of one change: the properties in the order the literal
\* gives them, a property that is undefined left out
stringifyChange(c) ==
  LET bool(b) == IF b THEN "true" ELSE "false"
      loc == IF c.loc = Undefined THEN <<>>
             ELSE << "\"loc\":" \o quoted(c.loc) >>
      message == << "\"message\":" \o quoted(c.message) >>
      rest == << "\"resourceName\":" \o quoted(c.resourceName),
                 "\"type\":" \o quoted(c.type) >>
      deprecated == << "\"wasDeprecated\":" \o bool(c.wasDeprecated) >>
      directive ==
        IF c.type \in {"ARG_BECAME_REQUIRED", "ARG_CHANGED_KIND"}
        THEN << "\"wasRequiredByDirective\":" \o bool(c.wasRequiredByDirective) >>
        ELSE <<>>
  IN  "{" \o Join(IF c.type \in MessageFirst
                  THEN loc \o message \o rest \o deprecated \o directive
                  ELSE loc \o rest \o message \o deprecated, ",") \o "}"

\* JSON.stringify of a list of changes
stringify(changes) ==
  "[" \o Join([i \in 1..Len(changes) |-> stringifyChange(changes[i])], ",") \o "]"

(***************************************************************************)
(* run() of the GitHub action, one step per statement that can throw or    *)
(* that calls into another module.  The current schema is the local file   *)
(* (the text to), the base schema the file the hosting API returns (the    *)
(* text from, taken as already decoded from base64).                       *)
(***************************************************************************)
function == <<from, to, fromSchema, toSchema, pc, argChanges, breakingChanges,
              dangerousChanges>>

info(message) == [fn |-> "core.info", message |-> message]

setOutput(name, value) == [fn |-> "core.setOutput", name |-> name, value |-> value]

setFailed(message) == [fn |-> "core.setFailed", message |-> message]

error(message, properties) ==
  [fn |-> "core.error", message |-> message, properties |-> properties]

warning(message, properties) ==
  [fn |-> "core.warning", message |-> message, properties |-> properties]

getContent(path, ref) ==
  [fn |-> "octokit.rest.repos.getContent", path |-> path, ref |-> ref]

\* what run() can be given: the local file is readable or not; the request
\* for the base file is answered with a file, with something that has no
\* content, or is rejected
RunEnvs ==
  { [program |-> "action", argc |-> 2, fromSource |-> f, toSource |-> t] :
      f \in {"ok", "noContent", "rejected"}, t \in {"ok", "unreadable"} }

RunInit ==
  /\ \E pair \in HostPairs : \E e \in RunEnvs :
       /\ (e.fromSource # "ok" \/ e.toSource # "ok") =>
            pair \in MixedTexts \X MixedTexts
       /\ from = pair[1] /\ to = pair[2]
       /\ env = e
  /\ fromSchema = <<>>
  /\ toSchema = <<>>
  /\ pc = "idle"
  /\ argChanges = NoArgChanges
  /\ breakingChanges = <<>>
  /\ dangerousChanges = <<>>
  /\ step = "inputs"
  /\ idx = 0
  /\ caught = ""
  /\ calls = <<>>
  /\ exitCode = <<>>

\* the inputs, the two info lines, the token and the client
RunGetInputs ==
  /\ env.program = "action" /\ step = "inputs"
  /\ calls' = calls \o << info("Comparing schema changes from " \o baseRef
                                 \o " to HEAD"),
                          info("Schema file: " \o schemaPath) >>
  /\ step' = "read"
  /\ UNCHANGED <<env, idx, caught, exitCode>>
  /\ UNCHANGED function

\* mutant: the base file is requested before the local file is read
RunReadCurrentSchema_RequestsFirst ==
  /\ env.program = "action" /\ step = "read"
  /\ calls' = Append(calls, getContent(schemaPath, baseRef))
  /\ IF env.toSource = "ok"
     THEN step' = "content" /\ UNCHANGED caught
     ELSE step' = "catch" /\ caught' = ReadError
  /\ UNCHANGED <<env, idx, exitCode>>
  /\ UNCHANGED function

\* const currentSchemaContent = readFileSync(join(process.cwd(), schemaPath))
RunReadCurrentSchema ==
  /\ env.program = "action" /\ step = "read"
  /\ IF env.toSource = "ok"
     THEN step' = "request" /\ UNCHANGED caught
     ELSE step' = "catch" /\ caught' = ReadError
  /\ UNCHANGED <<env, idx, calls, exitCode>>
  /\ UNCHANGED function

\* const { data: baseFile } = await octokit.rest.repos.getContent({...})
RunGetContent ==
  /\ env.program = "action" /\ step = "request"
  /\ calls' = Append(calls, getContent(schemaPath, baseRef))
  /\ IF env.fromSource = "rejected"
     THEN step' = "catch" /\ caught' = RequestError
     ELSE step' = "content" /\ UNCHANGED caught
  /\ UNCHANGED <<env, idx, exitCode>>
  /\ UNCHANGED function

\* if (!('content' in baseFile)) throw ...; then detectBreakingChanges is
\* called with the base text and the current text
RunCheckContent ==
  /\ env.program = "action" /\ step = "content"
  /\ IF env.fromSource = "noContent"
     THEN /\ step' = "catch"
          /\ caught' = "Could not retrieve base schema file"
          /\ UNCHANGED pc
     ELSE /\ step' = "compare"
          /\ pc' = "start"
          /\ UNCHANGED caught
  /\ UNCHANGED <<env, idx, calls, exitCode>>
  /\ UNCHANGED <<from, to, fromSchema, toSchema, argChanges, breakingChanges,
                 dangerousChanges>>

\* detectBreakingChanges threw: control goes to the catch clause
RunCompareThrew ==
  /\ env.program = "action" /\ step = "compare" /\ pc = "threw"
  /\ step' = "catch"
  /\ caught' = SyntaxError
  /\ UNCHANGED <<env, idx, calls, exitCode>>
  /\ UNCHANGED function

\* the two outputs and the two info lines
RunSetOutputs ==
  /\ env.program = "action" /\ step = "compare" /\ pc = "done"
  /\ calls' = calls \o
       << setOutput("breaking_changes", stringify(breakingChanges)),
          setOutput("dangerous_changes", stringify(dangerousChanges)),
          info("Found " \o ToString(Len(breakingChanges)) \o " breaking changes"),
          info("Found " \o ToString(Len(dangerousChanges)) \o " dangerous changes") >>
  /\ step' = "errors"
  /\ idx' = 1
  /\ UNCHANGED <<env, caught, exitCode>>
  /\ UNCHANGED function

\* one turn of breakingChanges.forEach: change.loc.split(':') throws when loc
\* is undefined
RunErrorAnnotation ==
  /\ env.program = "action" /\ step = "errors" /\ idx <= Len(breakingChanges)
  /\ LET change == breakingChanges[idx]
     IN  IF change.loc = Undefined
         THEN /\ step' = "catch"
              /\ caught' = TypeError
              /\ UNCHANGED <<idx, calls>>
         ELSE /\ calls' = Append(calls,
                            error("[Breaking change] " \o change.message,
                                  annotationProperties(change.loc)))
              /\ idx' = idx + 1
              /\ UNCHANGED <<step, caught>>
  /\ UNCHANGED <<env, exitCode>>
  /\ UNCHANGED function

\* breakingChanges.forEach is over
RunErrorsDone ==
  /\ env.program = "action" /\ step = "errors" /\ idx > Len(breakingChanges)
  /\ step' = "warnings"
  /\ idx' = 1
  /\ UNCHANGED <<env, caught, calls, exitCode>>
  /\ UNCHANGED function

\* one turn of dangerousChanges.forEach
RunWarningAnnotation ==
  /\ env.program = "action" /\ step = "warnings" /\ idx <= Len(dangerousChanges)
  /\ LET change == dangerousChanges[idx]
     IN  IF change.loc = Undefined
         THEN /\ step' = "catch"
              /\ caught' = TypeError
              /\ UNCHANGED <<idx, calls>>
         ELSE /\ calls' = Append(calls,
                            warning("[Dangerous change] " \o change.message,
                                    annotationProperties(change.loc)))
              /\ idx' = idx + 1
              /\ UNCHANGED <<step, caught>>
  /\ UNCHANGED <<env, exitCode>>
  /\ UNCHANGED function

\* mutant: the action fails on dangerous changes too
RunSetFailed_OnAnyChange ==
  /\ env.program = "action" /\ step = "warnings" /\ idx > Len(dangerousChanges)
  /\ calls' = IF Len(breakingChanges) + Len(dangerousChanges) > 0
              THEN Append(calls,
                     setFailed("Found " \o ToString(Len(breakingChanges))
                                 \o " breaking changes in GraphQL schema"))
              ELSE calls
  /\ step' = "end"
  /\ UNCHANGED <<env, idx, caught, exitCode>>
  /\ UNCHANGED function

\* dangerousChanges.forEach is over: fail the action if breaking changes are
\* found
RunSetFailed ==
  /\ env.program = "action" /\ step = "warnings" /\ idx > Len(dangerousChanges)
  /\ calls' = IF Len(breakingChanges) > 0
              THEN Append(calls,
                     setFailed("Found " \o ToString(Len(breakingChanges))
                                 \o " breaking changes in GraphQL schema"))
              ELSE calls
  /\ step' = "end"
  /\ UNCHANGED <<env, idx, caught, exitCode>>
  /\ UNCHANGED function

\* mutant: the catch clause fails the action without the error's message
RunCatch_DropsMessage ==
  /\ env.program = "action" /\ step = "catch"
  /\ calls' = Append(calls, setFailed("Action failed"))
  /\ step' = "end"
  /\ UNCHANGED <<env, idx, caught, exitCode>>
  /\ UNCHANGED function

\* catch (error) { core.setFailed(error.message) }
RunCatch ==
  /\ env.program = "action" /\ step = "catch"
  /\ calls' = Append(calls, setFailed(caught))
  /\ step' = "end"
  /\ UNCHANGED <<env, idx, caught, exitCode>>
  /\ UNCHANGED function

RunNext ==
  \/ RunGetInputs
  \/ RunReadCurrentSchema
  \/ RunGetContent
  \/ RunCheckContent
  \/ Next
  \/ RunCompareThrew
  \/ RunSetOutputs
  \/ RunErrorAnnotation
  \/ RunErrorsDone
  \/ RunWarningAnnotation
  \/ RunSetFailed
  \/ RunCatch

ActionSpec == RunInit /\ [][RunNext]_vars

(***************************************************************************)
(* main() of the command line program, around the same function.  The      *)
(* lines it prints are logged in calls, without the colour codes.          *)
(* process.exit(n) ends the program: exitCode holds <<n>> from then on and *)
(* <<>> while the program runs; a main() that returns ends the program     *)
(* with code 0.                                                            *)
(***************************************************************************)
consoleError(message) == [fn |-> "console.error", message |-> message]

consoleLog(message) == [fn |-> "console.log", message |-> message]

fromSchemaPath == "schema-old.graphql"
toSchemaPath == "schema-new.graphql"

\* what main() can be given: the number of arguments, and whether each of
\* the two files can be read
CliEnvs ==
  { [program |-> "cli", argc |-> n, fromSource |-> f, toSource |-> t] :
      n \in 0..3, f \in {"ok", "unreadable"}, t \in {"ok", "unreadable"} }

CliInit ==
  /\ \E pair \in HostPairs : \E e \in CliEnvs :
       /\ (e.argc # 2 \/ e.fromSource # "ok" \/ e.toSource # "ok") =>
            pair \in MixedTexts \X MixedTexts
       /\ from = pair[1] /\ to = pair[2]
       /\ env = e
  /\ fromSchema = <<>>
  /\ toSchema = <<>>
  /\ pc = "idle"
  /\ argChanges = NoArgChanges
  /\ breakingChanges = <<>>
  /\ dangerousChanges = <<>>
  /\ step = "args"
  /\ idx = 0
  /\ caught = ""
  /\ calls = <<>>
  /\ exitCode = <<>>

\* if (args.length !== 2) { console.error(...); printUsage(); process.exit(1) }
CliCheckArgs ==
  /\ env.program = "cli" /\ step = "args"
  /\ IF env.argc # 2
     THEN /\ calls' = calls \o
               << consoleError("Error: Expected 2 arguments, got "
                                 \o ToString(env.argc)),
                  consoleLog("Usage: detect-breaking-graphql-changes <from-schema> <to-schema>") >>
          /\ exitCode' = <<1>>
          /\ step' = "exited"
     ELSE /\ step' = "readFrom"
          /\ UNCHANGED <<calls, exitCode>>
  /\ UNCHANGED <<env, idx, caught>>
  /\ UNCHANGED function

\* fromSchema = readFileSync(fromSchemaPath, 'utf8')
CliReadFrom ==
  /\ env.program = "cli" /\ step = "readFrom"
  /\ IF env.fromSource # "ok"
     THEN /\ calls' = calls \o
               << consoleError("Error reading from schema file: "
                                 \o fromSchemaPath),
                  consoleError(ReadError) >>
          /\ caught' = ReadError
          /\ exitCode' = <<1>>
          /\ step' = "exited"
     ELSE /\ step' = "readTo"
          /\ UNCHANGED <<calls, caught, exitCode>>
  /\ UNCHANGED <<env, idx>>
  /\ UNCHANGED function

\* toSchema = readFileSync(toSchemaPath, 'utf8'); then detectBreakingChanges
\* is called with the two texts
CliReadTo ==
  /\ env.program = "cli" /\ step = "readTo"
  /\ IF env.toSource # "ok"
     THEN /\ calls' = calls \o
               << consoleError("Error reading to schema file: "
                                 \o toSchemaPath),
                  consoleError(ReadError) >>
          /\ caught' = ReadError
          /\ exitCode' = <<1>>
          /\ step' = "exited"
          /\ UNCHANGED pc
     ELSE /\ step' = "compare"
          /\ pc' = "start"
          /\ UNCHANGED <<calls, caught, exitCode>>
  /\ UNCHANGED <<env, idx>>
  /\ UNCHANGED <<from, to, fromSchema, toSchema, argChanges, breakingChanges,
                 dangerousChanges>>

\* detectBreakingChanges threw: the catch clause prints and exits with 1
CliCompareThrew ==
  /\ env.program = "cli" /\ step = "compare" /\ pc = "threw"
  /\ calls' = calls \o << consoleError("Error analyzing schemas:"),
                          consoleError(SyntaxError) >>
  /\ caught' = SyntaxError
  /\ exitCode' = <<1>>
  /\ step' = "exited"
  /\ UNCHANGED <<env, idx>>
  /\ UNCHANGED function

\* a list of changes under its title, one block of lines per change; nothing
\* for an empty list
printChanges(title, changes) ==
  LET printChange(change, index) ==
        << consoleLog("  " \o ToString(index) \o ". " \o change.message),
           consoleLog("     Resource: " \o change.resourceName),
           consoleLog("     Type: " \o change.type),
           consoleLog("     Location: " \o change.loc) >>
          \o (IF change.wasDeprecated
              THEN << consoleLog("     Note: Resource was deprecated") >>
              ELSE <<>>)
          \o << consoleLog("") >>
  IN  IF Len(changes) > 0
      THEN << consoleLog(title \o " (" \o ToString(Len(changes)) \o "):") >>
             \o Flatten([i \in 1..Len(changes) |-> printChange(changes[i], i)])
      ELSE <<>>

\* the two lines above every report
reportHeader ==
  << consoleLog("GraphQL Schema Change Detection"),
     consoleLog("Comparing: " \o fromSchemaPath \o " -> " \o toSchemaPath) >>

\* mutant: dangerous changes make the program exit with 1 too
CliReport_FailsOnAnyChange ==
  /\ env.program = "cli" /\ step = "compare" /\ pc = "done"
  /\ IF Len(breakingChanges) = 0 /\ Len(dangerousChanges) = 0
     THEN /\ calls' = calls \o reportHeader \o
               << consoleLog("No breaking or dangerous changes detected!") >>
          /\ exitCode' = <<0>>
          /\ step' = "exited"
     ELSE /\ calls' = calls \o reportHeader
               \o printChanges("Breaking Changes", breakingChanges)
               \o printChanges("Dangerous Changes", dangerousChanges)
          /\ exitCode' = <<1>>
          /\ step' = "exited"
  /\ UNCHANGED <<env, idx, caught>>
  /\ UNCHANGED function

\* detectBreakingChanges returned: the report, then process.exit(0) when both
\* lists are empty, process.exit(1) when there are breaking changes, and
\* otherwise main() returns
CliReport ==
  /\ env.program = "cli" /\ step = "compare" /\ pc = "done"
  /\ IF Len(breakingChanges) = 0 /\ Len(dangerousChanges) = 0
     THEN /\ calls' = calls \o reportHeader \o
               << consoleLog("No breaking or dangerous changes detected!") >>
          /\ exitCode' = <<0>>
          /\ step' = "exited"
     ELSE /\ calls' = calls \o reportHeader
               \o printChanges("Breaking Changes", breakingChanges)
               \o printChanges("Dangerous Changes", dangerousChanges)
          /\ IF Len(breakingChanges) > 0
             THEN exitCode' = <<1>> /\ step' = "exited"
             ELSE exitCode' = <<0>> /\ step' = "returned"
  /\ UNCHANGED <<env, idx, caught>>
  /\ UNCHANGED function

CliNext ==
  \/ CliCheckArgs
  \/ CliReadFrom
  \/ CliReadTo
  \/ Next
  \/ CliCompareThrew
  \/ CliReport

CliSpec == CliInit /\ [][CliNext]_vars

(***************************************************************************)
(* The pure functions of detectBreakingChanges.ts called on their own:     *)
(* env holds the arguments, calls the results.  isDefaultValueEqual is     *)
(* given two default values; the two compatibility rules are given three   *)
(* type references and applied to every ordered pair of them.              *)
(***************************************************************************)
result(fn, old, new, value) ==
  [fn |-> fn, old |-> old, new |-> new, result |-> value]

PureInit ==
  /\ LET values ==
           DefaultValues
             \cup { Num("NaN"), Arr(<< Num("NaN") >>),
                    Obj(<< <<"p", Num("NaN")>> >>),
                    Arr(<< Arr(<<>>), Obj(<<>>) >>),
                    Arr(<< Obj(<<>>), Arr(<<>>) >>),
                    Arr(<< Num("1"), Str("a") >>) }
         types == TypeRefs({"String", "Int"}, MaxListDepth)
     IN  \/ \E a \in values : \E b \in values :
              env = [program |-> "isDefaultValueEqual", oldValue |-> a,
                     newValue |-> b]
         \/ \E a \in types : \E b \in types : \E c \in types :
              env = [program |-> "isChangeSafe", types |-> << a, b, c >>]
  /\ from = Text(<<>>) /\ to = Text(<<>>)
  /\ fromSchema = <<>>
  /\ toSchema = <<>>
  /\ pc = "idle"
  /\ argChanges = NoArgChanges
  /\ breakingChanges = <<>>
  /\ dangerousChanges = <<>>
  /\ step = "call"
  /\ idx = 0
  /\ caught = ""
  /\ calls = <<>>
  /\ exitCode = <<>>

\* isDefaultValueEqual(oldValue, newValue)
CallIsDefaultValueEqual ==
  /\ env.program = "isDefaultValueEqual" /\ step = "call"
  /\ calls' = << result("isDefaultValueEqual", env.oldValue, env.newValue,
                        isDefaultValueEqual(env.oldValue, env.newValue)) >>
  /\ step' = "end"
  /\ UNCHANGED <<env, idx, caught, exitCode>>
  /\ UNCHANGED function

\* the two rules on every ordered pair of the three type references
CallIsChangeSafe ==
  /\ env.program = "isChangeSafe" /\ step = "call"
  /\ calls' =
       Flatten([i \in 1..9 |->
         LET old == env.types[((i - 1) \div 3) + 1]
             new == env.types[((i - 1) % 3) + 1]
         IN  << result("isChangeSafeForObjectOrInterfaceField", old, new,
                       isChangeSafeForObjectOrInterfaceField(old, new)),
                result("isChangeSafeForInputObjectFieldOrFieldArg", old, new,
                       isChangeSafeForInputObjectFieldOrFieldArg(old, new)) >>])
  /\ step' = "end"
  /\ UNCHANGED <<env, idx, caught, exitCode>>
  /\ UNCHANGED function

PureSpec == PureInit /\ [][CallIsDefaultValueEqual \/ CallIsChangeSafe]_vars

(***************************************************************************)
(* Properties of the result.  They are stated on the definitions of the    *)
(* two texts (from.doc, to.doc), not on what the passes computed.          *)
(***************************************************************************)
Done == pc = "done"

AllChanges == breakingChanges \o dangerousChanges

defNames(doc) == { doc[i].name : i \in 1..Len(doc) }

defOf(doc, name) == doc[CHOOSE i \in 1..Len(doc) : doc[i].name = name]

memberNames(members) == { members[i].name : i \in 1..Len(members) }

memberOf(members, name) ==
  members[CHOOSE i \in 1..Len(members) : members[i].name = name]

\* the names defined by both texts
CommonNames == defNames(from.doc) \cap defNames(to.doc)

\* the names of the types that are Object in both texts or Interface in both
KeptObjectNames ==
  { n \in CommonNames :
      /\ defOf(from.doc, n).kind \in {"Object", "Interface"}
      /\ defOf(to.doc, n).kind = defOf(from.doc, n).kind }

\* a type the removed-types pass never reports
IsBuiltInName(n) ==
  \/ n \in {"String", "Int", "Float", "Boolean", "ID"}
  \/ n \in IntrospectionNames
  \/ (Len(n) >= 2 /\ SubSeq(n, 1, 2) = "__")

\* <<type, field>> for the fields of the old and of the new kept types
oldFields ==
  UNION { { <<n, f>> : f \in memberNames(defOf(from.doc, n).fields) } :
            n \in KeptObjectNames }

newFields ==
  UNION { { <<n, f>> : f \in memberNames(defOf(to.doc, n).fields) } :
            n \in KeptObjectNames }

\* the fields of kept types that the new text lacks, and those it keeps
RemovedFields == oldFields \ newFields

CommonFields == oldFields \cap newFields

oldFieldOf(tf) == memberOf(defOf(from.doc, tf[1]).fields, tf[2])

newFieldOf(tf) == memberOf(defOf(to.doc, tf[1]).fields, tf[2])

\* <<type, field, arg>> for the arguments only the new field has, only the
\* old field has, and both have
AddedArgs ==
  UNION { { <<tf[1], tf[2], a>> :
              a \in memberNames(newFieldOf(tf).args)
                      \ memberNames(oldFieldOf(tf).args) } : tf \in CommonFields }

RemovedArgs ==
  UNION { { <<tf[1], tf[2], a>> :
              a \in memberNames(oldFieldOf(tf).args)
                      \ memberNames(newFieldOf(tf).args) } : tf \in CommonFields }

CommonArgs ==
  UNION { { <<tf[1], tf[2], a>> :
              a \in memberNames(oldFieldOf(tf).args)
                      \cap memberNames(newFieldOf(tf).args) } : tf \in CommonFields }

oldArgOf(tfa) == memberOf(oldFieldOf(tfa).args, tfa[3])

newArgOf(tfa) == memberOf(newFieldOf(tfa).args, tfa[3])

\* the argument is non-null and has no default
IsRequiredArg(a) == a.type.kind = "NonNull" /\ a.defaultValue.t = "undefined"

HasPrefix(str, prefix) ==
  Len(str) >= Len(prefix) /\ SubSeq(str, 1, Len(prefix)) = prefix

\* the positions of list whose change satisfies Test
Where(list, Test(_)) == { i \in 1..Len(list) : Test(list[i]) }

\* every old member is kept as it is, in order: only members were added
OnlyMembersAdded(oldMembers, newMembers) == oldMembers \in SubSeqs(newMembers)

\* every old argument is kept as it is and every added one is optional
OnlyOptionalArgsAdded(oldArgs, newArgs) ==
  /\ OnlyMembersAdded(oldArgs, newArgs)
  /\ \A i \in 1..Len(newArgs) :
       newArgs[i].name \notin memberNames(oldArgs) => ~IsRequiredArg(newArgs[i])

\* the new text is the old one plus fields, enum values and optional arguments
OnlyAdditions ==
  /\ from.ok /\ to.ok /\ from # to
  /\ Len(from.doc) = Len(to.doc)
  /\ \A i \in 1..Len(from.doc) :
       LET o == from.doc[i]
           n == to.doc[i]
       IN  /\ o.name = n.name /\ o.kind = n.kind /\ o.types = n.types
           /\ o.directives = n.directives
           /\ OnlyMembersAdded(o.values, n.values)
           /\ \A k \in 1..Len(o.fields) :
                /\ o.fields[k].name \in memberNames(n.fields)
                /\ LET nf == memberOf(n.fields, o.fields[k].name)
                   IN  /\ nf.type = o.fields[k].type
                       /\ nf.directives = o.fields[k].directives
                       /\ OnlyOptionalArgsAdded(o.fields[k].args, nf.args)

\* C1: comparing a schema with itself yields no breaking and no dangerous
\* change, also when its arguments have list- or object-shaped defaults.
C1_IdenticalSchemasYieldNoChange ==
  (Done /\ from = to) => (breakingChanges = <<>> /\ dangerousChanges = <<>>)

C1_Witness ==
  /\ Done /\ from = to
  /\ \E tf \in CommonFields : \E i \in 1..Len(oldFieldOf(tf).args) :
       /\ oldFieldOf(tf).args[i].defaultValue.t = "object"
       /\ oldFieldOf(tf).args[i].defaultValue.entries # <<>>

\* C2: when the new schema only adds fields, enum values and optional
\* arguments, breakingChanges is empty and dangerousChanges holds exactly one
\* OPTIONAL_ARG_ADDED per added argument and nothing else.
C2_AdditionsAreNotBreaking ==
  (Done /\ OnlyAdditions) =>
    /\ breakingChanges = <<>>
    /\ Len(dangerousChanges) = Cardinality(AddedArgs)
    /\ \A tfa \in AddedArgs :
         Cardinality(Where(dangerousChanges, LAMBDA c :
           /\ c.type = "OPTIONAL_ARG_ADDED"
           /\ c.message = "An optional arg '" \o tfa[3] \o "' on '" \o tfa[1]
                            \o "." \o tfa[2] \o "' was added")) = 1

C2_Witness ==
  /\ Done /\ OnlyAdditions
  /\ Cardinality(AddedArgs) >= 2
  /\ \E tfa \in AddedArgs : newArgOf(tfa).type.kind = "NonNull"

\* C3: for a type that stays Object or stays Interface, every field of the
\* old type that the new type lacks yields exactly one FIELD_REMOVED named
\* <Type>.<field>, a field kept with its type yields no field change, and
\* when no type moves between Object and Interface the FIELD_REMOVED changes
\* are as many as the removed fields.
C3_OneFieldRemovedPerRemovedField ==
  Done =>
    /\ \A tf \in RemovedFields :
         Cardinality(Where(breakingChanges, LAMBDA c :
           /\ c.type = "FIELD_REMOVED"
           /\ c.resourceName = tf[1] \o "." \o tf[2])) = 1
    /\ \A tf \in CommonFields :
         oldFieldOf(tf).type = newFieldOf(tf).type =>
           Where(breakingChanges, LAMBDA c :
             /\ c.type \in {"FIELD_REMOVED", "FIELD_CHANGED_KIND"}
             /\ c.resourceName = tf[1] \o "." \o tf[2]) = {}
    /\ (\A n \in CommonNames :
          {defOf(from.doc, n).kind, defOf(to.doc, n).kind}
            # {"Object", "Interface"}) =>
         Cardinality(Where(breakingChanges, LAMBDA c : c.type = "FIELD_REMOVED"))
           = Cardinality(RemovedFields)

C3_Witness ==
  /\ Done
  /\ Cardinality({ tf[1] : tf \in RemovedFields }) >= 2
  /\ \E n \in KeptObjectNames : defOf(from.doc, n).kind = "Interface"
                                  /\ \E tf \in RemovedFields : tf[1] = n

\* the types the new text drops, built-in and reserved names aside
RemovedTypeNames ==
  { n \in defNames(from.doc) \ defNames(to.doc) : ~IsBuiltInName(n) }

\* the change is about type n or about a member of type n
IsAbout(c, n) ==
  \/ c.resourceName = n
  \/ HasPrefix(c.resourceName, n \o ".")
  \/ HasPrefix(c.message, "'" \o n \o ".")

\* C4: a type of the old schema that is not built-in and is absent from the
\* new schema yields exactly one change, a TYPE_REMOVED named after the type
\* with no loc, and nothing about its members; dropping k such types from an
\* otherwise unchanged schema yields exactly k breaking changes.
C4_OneTypeRemovedPerRemovedType ==
  Done =>
    /\ \A n \in RemovedTypeNames :
         /\ Cardinality(Where(AllChanges, LAMBDA c : IsAbout(c, n))) = 1
         /\ \A i \in Where(breakingChanges, LAMBDA c : IsAbout(c, n)) :
              /\ breakingChanges[i].type = "TYPE_REMOVED"
              /\ breakingChanges[i].resourceName = n
              /\ breakingChanges[i].loc = Undefined
         /\ Where(dangerousChanges, LAMBDA c : IsAbout(c, n)) = {}
    /\ to.doc = SelectSeq(from.doc, LAMBDA d : d.name \notin RemovedTypeNames) =>
         Len(breakingChanges) = Cardinality(RemovedTypeNames)

C4_Witness ==
  /\ Done
  /\ Cardinality(RemovedTypeNames) = 2
  /\ to.doc = SelectSeq(from.doc, LAMBDA d : d.name \notin RemovedTypeNames)
  /\ \E n \in RemovedTypeNames :
       \E k \in 1..Len(defOf(from.doc, n).fields) :
         defOf(from.doc, n).fields[k].args # <<>>

\* the new text is the old one with some fields dropped
OnlyFieldsDropped ==
  /\ from.ok /\ to.ok /\ from # to
  /\ Len(from.doc) = Len(to.doc)
  /\ \A i \in 1..Len(from.doc) :
       /\ to.doc[i].fields \in SubSeqs(from.doc[i].fields)
       /\ to.doc[i] = [from.doc[i] EXCEPT !.fields = to.doc[i].fields]
       /\ to.doc[i].fields # from.doc[i].fields =>
            from.doc[i].kind \in {"Object", "Interface"}

\* C5: no TYPE_REMOVED is reported for a specified scalar, an introspection
\* type or a type named __..., even when the old type map holds it and the
\* new one does not; dropping fields yields FIELD_REMOVED changes only.
C5_BuiltInTypesAreNeverRemoved ==
  Done =>
    /\ \A i \in 1..Len(breakingChanges) :
         breakingChanges[i].type = "TYPE_REMOVED" =>
           ~IsBuiltInName(breakingChanges[i].resourceName)
    /\ OnlyFieldsDropped =>
         \A i \in 1..Len(breakingChanges) :
           breakingChanges[i].type = "FIELD_REMOVED"

C5_Witness ==
  /\ Done
  /\ "Int" \in typeNames(fromSchema) \ typeNames(toSchema)
  /\ "__Meta" \in typeNames(fromSchema) \ typeNames(toSchema)
  /\ breakingChanges # <<>>

\* the names both texts define with different kinds
KindChangedNames ==
  { n \in CommonNames : defOf(from.doc, n).kind # defOf(to.doc, n).kind }

\* the type moves between Object and Interface
MovesBetweenObjectAndInterface(n) ==
  {defOf(from.doc, n).kind, defOf(to.doc, n).kind} = {"Object", "Interface"}

\* the positions of the TYPE_CHANGED_KIND changes named n
KindChangesOf(n) ==
  Where(breakingChanges, LAMBDA c :
    c.type = "TYPE_CHANGED_KIND" /\ c.resourceName = n)

\* C6 as stated: every type name present in both schemas whose kind differs
\* yields exactly one TYPE_CHANGED_KIND named after the type, for every
\* ordered pair of distinct kinds, Object to Interface and back included.
C6_EveryKindChangeIsReported ==
  Done => \A n \in KindChangedNames : Cardinality(KindChangesOf(n)) = 1

\* C6 amended: a type name present in both schemas whose kind differs yields
\* exactly one TYPE_CHANGED_KIND named after the type, for every ordered pair
\* of distinct kinds other than Object to Interface and Interface to Object;
\* for those two no TYPE_CHANGED_KIND is emitted, and each field of the old
\* type that the new type lacks yields exactly one FIELD_REMOVED instead.
C6_KindChangeReportedUnlessObjectInterface ==
  Done =>
    /\ \A n \in KindChangedNames :
         IF MovesBetweenObjectAndInterface(n)
         THEN /\ KindChangesOf(n) = {}
              /\ \A f \in memberNames(defOf(from.doc, n).fields)
                            \ memberNames(defOf(to.doc, n).fields) :
                   Cardinality(Where(breakingChanges, LAMBDA c :
                     /\ c.type = "FIELD_REMOVED"
                     /\ c.resourceName = n \o "." \o f)) = 1
         ELSE Cardinality(KindChangesOf(n)) = 1
    /\ Cardinality(Where(breakingChanges, LAMBDA c :
                           c.type = "TYPE_CHANGED_KIND"))
         = Cardinality({ n \in KindChangedNames :
                           ~MovesBetweenObjectAndInterface(n) })

C6_Witness ==
  /\ Done
  /\ \E n \in KindChangedNames :
       /\ defOf(from.doc, n).kind = "Object"
       /\ defOf(to.doc, n).kind = "Interface"
       /\ memberNames(defOf(from.doc, n).fields)
            \ memberNames(defOf(to.doc, n).fields) # {}
  /\ \E n \in KindChangedNames :
       /\ defOf(from.doc, n).kind = "Enum"
       /\ defOf(to.doc, n).kind = "Object"

\* the two messages about an argument added to a field
RequiredArgAdded(tfa) ==
  "A required arg '" \o tfa[3] \o "' on '" \o tfa[1] \o "." \o tfa[2]
    \o "' was added"

OptionalArgAdded(tfa) ==
  "An optional arg '" \o tfa[3] \o "' on '" \o tfa[1] \o "." \o tfa[2]
    \o "' was added"

\* C7: for a field present in both versions of a same-kind Object/Interface
\* type, each argument only the new version has yields exactly one change: a
\* breaking REQUIRED_ARG_ADDED when it is non-null without default, else a
\* dangerous OPTIONAL_ARG_ADDED (a non-null argument with a default too);
\* both are named <Type>.<field>.
C7_AddedArgIsRequiredOrOptional ==
  Done =>
    \A tfa \in AddedArgs :
      LET required == IsRequiredArg(newArgOf(tfa))
          hits == Where(AllChanges, LAMBDA c :
                    \/ c.message \in {RequiredArgAdded(tfa), OptionalArgAdded(tfa)}
                    \/ c.resourceName = tfa[2] \o "." \o tfa[3])
          expected ==
            IF required
            THEN Where(breakingChanges, LAMBDA c :
                   /\ c.type = "REQUIRED_ARG_ADDED"
                   /\ c.message = RequiredArgAdded(tfa)
                   /\ c.resourceName = tfa[1] \o "." \o tfa[2])
            ELSE Where(dangerousChanges, LAMBDA c :
                   /\ c.type = "OPTIONAL_ARG_ADDED"
                   /\ c.message = OptionalArgAdded(tfa)
                   /\ c.resourceName = tfa[1] \o "." \o tfa[2])
      IN  Cardinality(hits) = 1 /\ Cardinality(expected) = 1

C7_Witness ==
  /\ Done
  /\ \E tfa \in AddedArgs : IsRequiredArg(newArgOf(tfa))
  /\ \E tfa \in AddedArgs :
       /\ newArgOf(tfa).type.kind = "NonNull"
       /\ newArgOf(tfa).defaultValue.t # "undefined"

\* '<Type>.<field>' arg '<arg>' followed by a space: how every message about
\* an argument of the old field starts
ArgHead(tfa) ==
  "'" \o tfa[1] \o "." \o tfa[2] \o "' arg '" \o tfa[3] \o "' "

\* the argument's type change is not input-safe
UnsafeArgTypeChange(tfa) ==
  ~isChangeSafeForInputObjectFieldOrFieldArg(oldArgOf(tfa).type,
                                             newArgOf(tfa).type)

\* the positions of the new field and of the new argument in the new schema
newFieldNode(tfa) ==
  byName(typeOfName(toSchema, tfa[1]).fields, tfa[2])

newArgNode(tfa) == byName(newFieldNode(tfa).args, tfa[3])

\* C8: for an argument present in both versions of a field of a same-kind
\* Object/Interface type whose type change is not input-safe, exactly one
\* change is emitted, a breaking one: ARG_BECAME_REQUIRED when the new type is
\* NonNull at the top and the old type is not, otherwise ARG_CHANGED_KIND; it
\* is named <field>.<arg> and its loc is the position of the new argument.
C8_UnsafeArgTypeChangeIsBreaking ==
  Done =>
    \A tfa \in CommonArgs :
      UnsafeArgTypeChange(tfa) =>
        /\ Cardinality(Where(AllChanges, LAMBDA c :
                               HasPrefix(c.message, ArgHead(tfa)))) = 1
        /\ Cardinality(Where(breakingChanges, LAMBDA c :
             /\ HasPrefix(c.message, ArgHead(tfa))
             /\ c.type = IF /\ newArgOf(tfa).type.kind = "NonNull"
                            /\ oldArgOf(tfa).type.kind # "NonNull"
                         THEN "ARG_BECAME_REQUIRED" ELSE "ARG_CHANGED_KIND"
             /\ c.resourceName = tfa[2] \o "." \o tfa[3]
             /\ c.loc = getLocation(newArgNode(tfa).astNode))) = 1

C8_Witness ==
  /\ Done
  /\ \E tfa \in CommonArgs :
       /\ UnsafeArgTypeChange(tfa)
       /\ newArgOf(tfa).type.kind = "NonNull"
       /\ oldArgOf(tfa).type.kind = "NonNull"
       /\ oldArgOf(tfa).defaultValue # newArgOf(tfa).defaultValue
       /\ oldArgOf(tfa).defaultValue.t # "undefined"

\* C9: for a field present in both versions of a same-kind Object/Interface
\* type, each argument the old field has and the new field lacks yields
\* exactly one change, a breaking ARG_REMOVED named <field>.<arg> whose loc is
\* the position of the owning field in the new schema.
C9_OneArgRemovedPerRemovedArg ==
  Done =>
    \A tfa \in RemovedArgs :
      /\ Cardinality(Where(AllChanges, LAMBDA c :
                             HasPrefix(c.message, ArgHead(tfa)))) = 1
      /\ Cardinality(Where(breakingChanges, LAMBDA c :
           /\ c.message = ArgHead(tfa) \o "removed from schema"
           /\ c.type = "ARG_REMOVED"
           /\ c.resourceName = tfa[2] \o "." \o tfa[3]
           /\ c.loc = getLocation(newFieldNode(tfa).astNode))) = 1

C9_Witness ==
  /\ Done
  /\ Cardinality(RemovedArgs) >= 2
  /\ \E tfa \in RemovedArgs : newFieldOf(tfa).args # <<>>

\* deep equality of two default values: the same shape, equal primitives,
\* arrays equal item by item, objects with the same keys and deep-equal
\* values whatever the order of the keys
RECURSIVE DeepEqual(_, _)
DeepEqual(a, b) ==
  IF a.t # b.t THEN FALSE
  ELSE IF a.t = "array" THEN
    /\ Len(a.items) = Len(b.items)
    /\ \A i \in 1..Len(a.items) : DeepEqual(a.items[i], b.items[i])
  ELSE IF a.t = "object" THEN
    /\ Len(a.entries) = Len(b.entries)
    /\ { a.entries[i][1] : i \in 1..Len(a.entries) }
         = { b.entries[i][1] : i \in 1..Len(b.entries) }
    /\ \A i \in 1..Len(a.entries) : \A j \in 1..Len(b.entries) :
         a.entries[i][1] = b.entries[j][1] =>
           DeepEqual(a.entries[i][2], b.entries[j][2])
  ELSE a = b

\* C10: for an argument present in both versions, a dangerous
\* ARG_DEFAULT_VALUE_CHANGE is emitted if and only if the type change is
\* input-safe, the old argument has an explicit default and the new default
\* (possibly absent) is not deep-equal to the old one.
C10_DefaultValueChangeIffNotDeepEqual ==
  Done =>
    \A tfa \in CommonArgs :
      (Where(dangerousChanges, LAMBDA c :
         /\ c.type = "ARG_DEFAULT_VALUE_CHANGE"
         /\ c.message = ArgHead(tfa) \o "has changed defaultValue") # {})
        <=> /\ ~UnsafeArgTypeChange(tfa)
            /\ oldArgOf(tfa).defaultValue.t # "undefined"
            /\ ~DeepEqual(oldArgOf(tfa).defaultValue,
                          newArgOf(tfa).defaultValue)

\* the names of the types that are Enum in both texts
KeptEnumNames ==
  { n \in CommonNames :
      defOf(from.doc, n).kind = "Enum" /\ defOf(to.doc, n).kind = "Enum" }

\* <<enum, value>> for the values of kept enums that the new enum lacks
RemovedValues ==
  UNION { { <<n, v>> : v \in memberNames(defOf(from.doc, n).values)
                              \ memberNames(defOf(to.doc, n).values) } :
            n \in KeptEnumNames }

\* C11: for a type that is an Enum in both schemas, every value of the old
\* enum that the new enum lacks yields exactly one change, a breaking
\* VALUE_REMOVED_FROM_ENUM named <Enum>.<Value> whose loc is the position of
\* the new enum; the VALUE_REMOVED_FROM_ENUM changes are as many as the
\* removed values, so added values yield none.
C11_OneValueRemovedPerRemovedValue ==
  Done =>
    /\ \A nv \in RemovedValues :
         /\ Cardinality(Where(AllChanges, LAMBDA c :
              c.resourceName = nv[1] \o "." \o nv[2])) = 1
         /\ Cardinality(Where(breakingChanges, LAMBDA c :
              /\ c.type = "VALUE_REMOVED_FROM_ENUM"
              /\ c.resourceName = nv[1] \o "." \o nv[2]
              /\ c.loc = getLocation(typeOfName(toSchema, nv[1]).astNode))) = 1
    /\ Cardinality(Where(AllChanges, LAMBDA c :
                           c.type = "VALUE_REMOVED_FROM_ENUM"))
         = Cardinality(RemovedValues)

C11_Witness ==
  /\ Done
  /\ Cardinality(RemovedValues) >= 3
  /\ Cardinality({ nv[1] : nv \in RemovedValues }) = 2
  /\ \E n \in KeptEnumNames :
       memberNames(defOf(to.doc, n).values)
         \ memberNames(defOf(from.doc, n).values) # {}

\* a type reference without its outermost NonNull
Nullable(t) == IF t.kind = "NonNull" THEN t.ofType ELSE t

\* the innermost named type of a type reference
RECURSIVE InnerName(_)
InnerName(t) ==
  IF Nullable(t).kind = "List" THEN InnerName(Nullable(t).ofType)
  ELSE Nullable(t).name

\* whether each level of a type reference is NonNull, outermost level first:
\* one level per list wrapper and one for the named type
RECURSIVE Levels(_)
Levels(t) ==
  << t.kind = "NonNull" >>
    \o (IF Nullable(t).kind = "List" THEN Levels(Nullable(t).ofType) ELSE <<>>)

SameNameAndNesting(old, new) ==
  InnerName(old) = InnerName(new) /\ Len(Levels(old)) = Len(Levels(new))

\* every level that is NonNull in old is NonNull in new
OutputSafe(old, new) ==
  /\ SameNameAndNesting(old, new)
  /\ \A i \in 1..Len(Levels(old)) : Levels(old)[i] => Levels(new)[i]

\* every level that is NonNull in new is NonNull in old
InputSafe(old, new) ==
  /\ SameNameAndNesting(old, new)
  /\ \A i \in 1..Len(Levels(new)) : Levels(new)[i] => Levels(old)[i]

\* C12: for a field present in both versions of a same-kind Object/Interface
\* type, one FIELD_CHANGED_KIND is emitted when the type change is not
\* output-safe and none when it is; old to new is output-safe iff both have
\* the same innermost named type and list nesting and every level that is
\* NonNull in the old type is NonNull in the new type.
C12_FieldChangedKindIffNotOutputSafe ==
  Done =>
    \A tf \in CommonFields :
      Cardinality(Where(AllChanges, LAMBDA c :
        /\ c.type = "FIELD_CHANGED_KIND"
        /\ c.resourceName = tf[1] \o "." \o tf[2]))
        = IF OutputSafe(oldFieldOf(tf).type, newFieldOf(tf).type) THEN 0 ELSE 1

C12_Witness ==
  /\ Done
  /\ \E tf \in CommonFields :
       /\ oldFieldOf(tf).type = List(Named("String"))
       /\ newFieldOf(tf).type = NonNull(List(NonNull(Named("String"))))
       /\ breakingChanges = <<>>

\* the definitions of a text with the type of every argument erased
EraseArgTypes(doc) ==
  [i \in 1..Len(doc) |->
    [doc[i] EXCEPT !.fields =
      [k \in 1..Len(doc[i].fields) |->
        [doc[i].fields[k] EXCEPT !.args =
          [a \in 1..Len(doc[i].fields[k].args) |->
            [doc[i].fields[k].args[a] EXCEPT !.type = Named("")]]]]]]

\* the new text is the old one with some argument types relaxed: nothing
\* differs but argument types, and every change of those is input-safe by
\* making non-null levels nullable
OnlyArgTypesRelaxed ==
  /\ from.ok /\ to.ok /\ from # to
  /\ EraseArgTypes(from.doc) = EraseArgTypes(to.doc)
  /\ \A tfa \in CommonArgs : InputSafe(oldArgOf(tfa).type, newArgOf(tfa).type)

\* C13: for an argument present in both versions, a breaking type change is
\* reported iff the change is not input-safe, where old to new is input-safe
\* iff both have the same innermost named type and list nesting and every
\* level that is NonNull in the new type is NonNull in the old type; relaxing
\* non-null levels of arguments and nothing else yields no change at all.
C13_ArgTypeChangeBreakingIffNotInputSafe ==
  Done =>
    /\ \A tfa \in CommonArgs :
         Cardinality(Where(AllChanges, LAMBDA c :
           /\ c.type \in {"ARG_CHANGED_KIND", "ARG_BECAME_REQUIRED"}
           /\ HasPrefix(c.message, ArgHead(tfa))))
           = IF InputSafe(oldArgOf(tfa).type, newArgOf(tfa).type) THEN 0 ELSE 1
    /\ OnlyArgTypesRelaxed => AllChanges = <<>>

C13_Witness ==
  /\ Done /\ OnlyArgTypesRelaxed
  /\ \E tfa \in CommonArgs :
       /\ oldArgOf(tfa).type = NonNull(List(NonNull(Named("JSON"))))
       /\ newArgOf(tfa).type = List(Named("JSON"))
       /\ oldArgOf(tfa).defaultValue.t # "undefined"

FieldCategories == {"FIELD_REMOVED", "FIELD_CHANGED_KIND"}

ArgCategories ==
  {"ARG_REMOVED", "ARG_CHANGED_KIND", "ARG_BECAME_REQUIRED", "REQUIRED_ARG_ADDED"}

\* the place of a category in the order the claim gives; 0 for any other
CategoryRank(c) ==
  CASE c.type = "TYPE_REMOVED" -> 1
    [] c.type = "TYPE_CHANGED_KIND" -> 2
    [] c.type \in FieldCategories -> 3
    [] c.type \in ArgCategories -> 4
    [] c.type = "VALUE_REMOVED_FROM_ENUM" -> 5
    [] OTHER -> 0

\* the change is about a field of a type that moves between Object and
\* Interface
IsFieldOfMovedType(c) ==
  /\ c.type \in FieldCategories
  /\ \E n \in KindChangedNames :
       MovesBetweenObjectAndInterface(n) /\ HasPrefix(c.resourceName, n \o ".")

\* the place in the order of the pass that emits the change
PassRank(c) == IF IsFieldOfMovedType(c) THEN 2 ELSE CategoryRank(c)

\* C14 as stated: in breakingChanges every TYPE_REMOVED precedes every
\* TYPE_CHANGED_KIND, which precedes every FIELD_REMOVED/FIELD_CHANGED_KIND,
\* which precedes every ARG_REMOVED/ARG_CHANGED_KIND/ARG_BECAME_REQUIRED/
\* REQUIRED_ARG_ADDED, which precedes every VALUE_REMOVED_FROM_ENUM, and
\* dangerousChanges is the dangerous output of the argument pass.
C14_CategoriesAreOrdered ==
  Done =>
    /\ \A i \in 1..Len(breakingChanges) : \A j \in 1..Len(breakingChanges) :
         i < j => CategoryRank(breakingChanges[i]) <= CategoryRank(breakingChanges[j])
    /\ dangerousChanges = argChanges.dangerousChanges

\* C14 amended: breakingChanges lists the output of the type-presence pass,
\* then of the type-kind pass, the field pass, the argument pass and the
\* enum-value pass.  The categories follow that order, except that the
\* FIELD_REMOVED/FIELD_CHANGED_KIND entries about a type that moves between
\* Object and Interface belong to the type-kind pass and so stand among the
\* TYPE_CHANGED_KIND entries.  The argument entries are the breaking output of
\* the argument pass and dangerousChanges is its dangerous output.
C14_PassesAreOrdered ==
  Done =>
    /\ \A i \in 1..Len(breakingChanges) : \A j \in 1..Len(breakingChanges) :
         i < j => /\ PassRank(breakingChanges[i]) >= 1
                  /\ PassRank(breakingChanges[i]) <= PassRank(breakingChanges[j])
    /\ SelectSeq(breakingChanges, LAMBDA c : c.type \in ArgCategories)
         = argChanges.breakingChanges
    /\ dangerousChanges = argChanges.dangerousChanges

C14_Witness ==
  /\ Done
  /\ { CategoryRank(breakingChanges[i]) : i \in 1..Len(breakingChanges) }
       = {1, 2, 3, 4, 5}
  /\ \E i \in 1..Len(breakingChanges) : \E j \in 1..Len(breakingChanges) :
       /\ i < j
       /\ breakingChanges[i].type = "FIELD_REMOVED"
       /\ breakingChanges[j].type = "TYPE_CHANGED_KIND"
  /\ dangerousChanges # <<>>

\* the categories the passes are said to produce
BreakingCategories ==
  {"TYPE_REMOVED", "TYPE_CHANGED_KIND", "VALUE_REMOVED_FROM_ENUM"}
    \cup FieldCategories \cup ArgCategories

DangerousCategories == {"ARG_DEFAULT_VALUE_CHANGE", "OPTIONAL_ARG_ADDED"}

CategoriesIn(list) == { list[i].type : i \in 1..Len(list) }

\* C15: at every step every entry of breakingChanges has one of the nine
\* breaking categories and every entry of dangerousChanges one of the two
\* dangerous categories; the same holds of the two lists of the argument pass.
C15_CategoriesStayInTheirList ==
  /\ CategoriesIn(breakingChanges) \subseteq BreakingCategories
  /\ CategoriesIn(argChanges.breakingChanges) \subseteq ArgCategories
  /\ CategoriesIn(dangerousChanges) \subseteq DangerousCategories
  /\ CategoriesIn(argChanges.dangerousChanges) \subseteq DangerousCategories

C15_Witness ==
  /\ Done
  /\ CategoriesIn(breakingChanges) = BreakingCategories
  /\ CategoriesIn(dangerousChanges) = DangerousCategories

\* no pass has run and nothing has been returned
NothingCompared ==
  /\ pc \in {"start", "fromBuilt", "threw"}
  /\ argChanges = NoArgChanges
  /\ breakingChanges = <<>>
  /\ dangerousChanges = <<>>

\* C16: when either text fails to parse, detectBreakingChanges stops at the
\* first buildSchema that fails (the text from before the text to), no pass
\* runs and no result is returned; whatever the texts, no pass runs before
\* both are parsed.
C16_ParseFailureAborts ==
  /\ (~from.ok \/ ~to.ok) => NothingCompared
  /\ pc \in {"start", "fromBuilt"} => NothingCompared
  /\ pc = "threw" =>
       /\ toSchema = <<>>
       /\ IF from.ok THEN fromSchema = buildSchema(from) /\ ~to.ok
          ELSE fromSchema = <<>>

C16_Witness ==
  /\ pc = "threw"
  /\ from.ok /\ ~to.ok
  /\ fromSchema # <<>>

\* the calls made so far to one function
CallsTo(fn) == SelectSeq(calls, LAMBDA c : c.fn = fn)

\* run() is over and both the retrieval and the comparison succeeded
RunCompared == env.program = "action" /\ step = "end" /\ pc = "done"

\* the values given to one output
OutputsNamed(name) ==
  SelectSeq(CallsTo("core.setOutput"), LAMBDA c : c.name = name)

\* C17: when retrieval and comparison succeed, run() calls setFailed iff
\* breakingChanges is not empty; with dangerous changes only it emits one
\* warning per dangerous change, no error annotation and does not fail; with
\* both lists empty it emits no annotation; in every case each of the outputs
\* breaking_changes and dangerous_changes is set once, to the JSON of its list.
C17_ActionFailsIffBreaking ==
  RunCompared =>
    /\ CallsTo("core.setFailed") # <<>> <=> breakingChanges # <<>>
    /\ Len(CallsTo("core.setFailed")) <= 1
    /\ breakingChanges = <<>> =>
         /\ CallsTo("core.error") = <<>>
         /\ [i \in 1..Len(CallsTo("core.warning")) |->
               CallsTo("core.warning")[i].message]
              = [i \in 1..Len(dangerousChanges) |->
                   "[Dangerous change] " \o dangerousChanges[i].message]
    /\ OutputsNamed("breaking_changes")
         = << setOutput("breaking_changes", stringify(breakingChanges)) >>
    /\ OutputsNamed("dangerous_changes")
         = << setOutput("dangerous_changes", stringify(dangerousChanges)) >>
    /\ breakingChanges = <<>> => OutputsNamed("breaking_changes")[1].value = "[]"
    /\ dangerousChanges = <<>> => OutputsNamed("dangerous_changes")[1].value = "[]"

C17_Witness ==
  /\ RunCompared
  /\ breakingChanges = <<>>
  /\ Len(dangerousChanges) >= 2
  /\ Len(CallsTo("core.warning")) >= 2

\* C18: for every result of the comparison, run() emits one error annotation
\* per breaking change and one warning annotation per dangerous change, also
\* for a change without loc, and with breaking changes it fails with the
\* message 'Found N breaking ...'.
C18_OneAnnotationPerChange ==
  RunCompared =>
    /\ Len(CallsTo("core.error")) = Len(breakingChanges)
    /\ Len(CallsTo("core.warning")) = Len(dangerousChanges)
    /\ breakingChanges # <<>> =>
         \E i \in 1..Len(calls) :
           /\ calls[i].fn = "core.setFailed"
           /\ HasPrefix(calls[i].message,
                        "Found " \o ToString(Len(breakingChanges)) \o " breaking")

\* some call to getContent has been made
Requested == CallsTo("octokit.rest.repos.getContent") # <<>>

\* C20: run() reads the local schema file before it requests the base schema:
\* nothing is requested before the read, and when the read fails the request
\* is never made, detectBreakingChanges is never called, and the one call to
\* setFailed carries the message of the read error.
C20_LocalReadComesFirst ==
  env.program = "action" =>
    /\ step \in {"inputs", "read"} => ~Requested
    /\ env.toSource = "unreadable" =>
         /\ ~Requested
         /\ pc = "idle"
         /\ step = "end" => CallsTo("core.setFailed") = << setFailed(ReadError) >>

C20_Witness ==
  /\ env.program = "action"
  /\ env.toSource = "unreadable" /\ env.fromSource = "ok"
  /\ step = "end"


\* main() is over
CliEnded == env.program = "cli" /\ step \in {"exited", "returned"}

\* main() could not compare: wrong number of arguments, a file that cannot
\* be read, or a text that does not parse
CliError ==
  \/ env.argc # 2
  \/ env.fromSource # "ok"
  \/ env.toSource # "ok"
  \/ ~from.ok
  \/ ~to.ok

\* C19: the command line program ends with status 1 iff detectBreakingChanges
\* returned a non-empty breakingChanges or an error occurred (wrong number of
\* arguments, unreadable file, unparsable schema), and with status 0
\* otherwise, dangerous changes alone included; it has no status before it
\* ends.
C19_ExitOneIffBreakingOrError ==
  env.program = "cli" =>
    /\ CliEnded <=> exitCode # <<>>
    /\ CliEnded =>
         /\ exitCode \in {<<0>>, <<1>>}
         /\ exitCode = <<1>> <=> (CliError \/ breakingChanges # <<>>)
         /\ CliError => pc # "done" /\ breakingChanges = <<>>
                          /\ dangerousChanges = <<>>
         /\ ~CliError => pc = "done"

C19_Witness ==
  /\ CliEnded
  /\ ~CliError
  /\ breakingChanges = <<>>
  /\ dangerousChanges # <<>>
  /\ exitCode = <<0>>

\* run() is over after the base file came without content or a text failed
\* to parse
RunFailedToCompare ==
  /\ env.program = "action" /\ step = "end"
  /\ env.toSource = "ok"
  /\ env.fromSource = "noContent" \/ (env.fromSource = "ok" /\ (~from.ok \/ ~to.ok))

\* C21: when the base file has no content or a schema text fails to parse,
\* run() calls setFailed once with the error's message ('Could not retrieve
\* base schema file' for missing content), sets no output, emits no error or
\* warning annotation, and the error stays inside run(): the catch clause is
\* where it ends, and from there run() ends.
C21_FailureIsCaught ==
  /\ RunFailedToCompare =>
       /\ CallsTo("core.setFailed") =
            << setFailed(IF env.fromSource = "noContent"
                         THEN "Could not retrieve base schema file"
                         ELSE SyntaxError) >>
       /\ CallsTo("core.setOutput") = <<>>
       /\ CallsTo("core.error") = <<>>
       /\ CallsTo("core.warning") = <<>>
       /\ calls[Len(calls)].fn = "core.setFailed"
       /\ NothingCompared \/ pc = "idle"
  /\ (env.program = "action" /\ step = "catch") => ENABLED RunCatch
  /\ (env.program = "action" /\ pc = "threw") => step \in {"compare", "catch", "end"}

C21_Witness ==
  /\ RunFailedToCompare
  /\ env.fromSource = "noContent"
  /\ CallsTo("core.setFailed") = << setFailed("Could not retrieve base schema file") >>

\* the nodes of the old field and of the old type in the old schema
oldTypeNode(n) == typeOfName(buildSchema(from), n)

oldFieldNode(tf) == byName(oldTypeNode(tf[1]).fields, tf[2])

\* <<type, field>> for every field of every Object or Interface of the old
\* text
AllOldFields ==
  UNION { { <<n, f>> : f \in memberNames(defOf(from.doc, n).fields) } :
            n \in { m \in defNames(from.doc) :
                      defOf(from.doc, m).kind \in {"Object", "Interface"} } }

\* C22: every FIELD_REMOVED change carries as loc the position of the removed
\* field in the old schema and as wasDeprecated the old field's deprecation
\* marker.
C22_FieldRemovedAtOldField ==
  Done =>
    \A i \in 1..Len(breakingChanges) :
      breakingChanges[i].type = "FIELD_REMOVED" =>
        \E tf \in AllOldFields :
          /\ breakingChanges[i].resourceName = tf[1] \o "." \o tf[2]
          /\ breakingChanges[i].loc = getLocation(oldFieldNode(tf).astNode)
          /\ breakingChanges[i].wasDeprecated
               = ("deprecated" \in oldFieldOf(tf).directives)

\* the old element a change is about carried the deprecated directive; the
\* element is the old type, field, enum value or argument the change names
\* (the changes about an added argument name no old element of their own)
OldElementWasDeprecated(c) ==
  CASE c.type \in {"TYPE_REMOVED", "TYPE_CHANGED_KIND"} ->
         "deprecated" \in defOf(from.doc, c.resourceName).directives
    [] c.type \in {"FIELD_REMOVED", "FIELD_CHANGED_KIND"} ->
         \E tf \in AllOldFields :
           /\ c.resourceName = tf[1] \o "." \o tf[2]
           /\ "deprecated" \in oldFieldOf(tf).directives
    [] c.type = "VALUE_REMOVED_FROM_ENUM" ->
         \E n \in defNames(from.doc) :
           \E k \in 1..Len(defOf(from.doc, n).values) :
             /\ c.resourceName = n \o "." \o defOf(from.doc, n).values[k].name
             /\ "deprecated" \in defOf(from.doc, n).values[k].directives
    [] c.type \in {"ARG_REMOVED", "ARG_CHANGED_KIND", "ARG_BECAME_REQUIRED",
                   "ARG_DEFAULT_VALUE_CHANGE"} ->
         \E tfa \in RemovedArgs \cup CommonArgs :
           /\ HasPrefix(c.message, ArgHead(tfa))
           /\ "deprecated" \in oldArgOf(tfa).directives
    [] OTHER -> c.wasDeprecated

\* C23: in every change, wasDeprecated is true exactly when the old element
\* that was removed or changed (type, field, enum value, or argument, the
\* argument whose default value changed included) carried the deprecated
\* directive.
C23_WasDeprecatedIsOfTheOldElement ==
  Done =>
    \A i \in 1..Len(AllChanges) :
      AllChanges[i].wasDeprecated = OldElementWasDeprecated(AllChanges[i])

ArgLevel ==
  {"ARG_REMOVED", "ARG_CHANGED_KIND", "ARG_BECAME_REQUIRED",
   "ARG_DEFAULT_VALUE_CHANGE", "REQUIRED_ARG_ADDED", "OPTIONAL_ARG_ADDED"}

\* the positions of the changes about type n or its members
ChangesAbout(n) == Where(AllChanges, LAMBDA c : IsAbout(c, n))

\* the fields a type that changed kind has in both texts, with a type change
\* that is not output-safe
UnsafeFieldsOf(n) ==
  { f \in memberNames(defOf(from.doc, n).fields)
            \cap memberNames(defOf(to.doc, n).fields) :
      ~isChangeSafeForObjectOrInterfaceField(
         memberOf(defOf(from.doc, n).fields, f).type,
         memberOf(defOf(to.doc, n).fields, f).type) }

\* C24 as stated: field-level and argument-level changes are emitted only for
\* types that are Object in both schemas or Interface in both, and any type
\* whose kind changed, Object to Interface and back included, yields exactly
\* one change in total.
C24_KindChangeYieldsOneChange ==
  Done =>
    /\ \A i \in 1..Len(AllChanges) :
         AllChanges[i].type \in FieldCategories \cup ArgLevel =>
           \E n \in KeptObjectNames : IsAbout(AllChanges[i], n)
    /\ \A n \in KindChangedNames : Cardinality(ChangesAbout(n)) = 1

\* C24 amended: argument-level changes are emitted only for types that are
\* Object in both schemas or Interface in both; field-level changes are
\* emitted for those and for the types that move between Object and
\* Interface.  A type whose kind changed yields exactly one change in total,
\* except for a move between Object and Interface, which yields one
\* FIELD_REMOVED per field the new type lacks, one FIELD_CHANGED_KIND per
\* common field whose type change is not output-safe, and nothing else.
C24_OnlyObjectInterfaceMoveYieldsFieldChanges ==
  Done =>
    /\ \A i \in 1..Len(AllChanges) :
         /\ AllChanges[i].type \in ArgLevel =>
              \E n \in KeptObjectNames : IsAbout(AllChanges[i], n)
         /\ AllChanges[i].type \in FieldCategories =>
              \E n \in CommonNames :
                /\ IsAbout(AllChanges[i], n)
                /\ n \in KeptObjectNames \/ MovesBetweenObjectAndInterface(n)
    /\ \A n \in KindChangedNames :
         IF MovesBetweenObjectAndInterface(n)
         THEN /\ \A i \in ChangesAbout(n) : AllChanges[i].type \in FieldCategories
              /\ Cardinality(ChangesAbout(n))
                   = Cardinality(memberNames(defOf(from.doc, n).fields)
                                   \ memberNames(defOf(to.doc, n).fields))
                     + Cardinality(UnsafeFieldsOf(n))
         ELSE Cardinality(ChangesAbout(n)) = 1

C24_Witness ==
  /\ Done
  /\ \E n \in KindChangedNames :
       /\ MovesBetweenObjectAndInterface(n)
       /\ Cardinality(ChangesAbout(n)) = 1
       /\ \E f \in memberNames(defOf(from.doc, n).fields)
                     \cap memberNames(defOf(to.doc, n).fields) :
            memberOf(defOf(from.doc, n).fields, f).args
              # memberOf(defOf(to.doc, n).fields, f).args

\* the place of name among members
indexOf(members, name) == CHOOSE i \in 1..Len(members) : members[i].name = name

\* where the code meets the element a change is about: the pass, the place of
\* the type in the old type map, the place of the field or enum value in the
\* old type, then for an argument 0 and its place in the old field, for an
\* added argument 1 and its place in the new field
OrderKey(c) ==
  LET t == CHOOSE i \in 1..Len(fromSchema) : IsAbout(c, fromSchema[i].name)
      n == fromSchema[t].name
      members == IF c.type = "VALUE_REMOVED_FROM_ENUM"
                 THEN defOf(from.doc, n).values ELSE defOf(from.doc, n).fields
  IN  IF c.type \in {"TYPE_REMOVED", "TYPE_CHANGED_KIND"}
      THEN << PassRank(c), t, 0, 0, 0 >>
      ELSE IF c.type \in FieldCategories \cup {"VALUE_REMOVED_FROM_ENUM"}
      THEN << PassRank(c), t,
              CHOOSE k \in 1..Len(members) :
                c.resourceName = n \o "." \o members[k].name,
              0, 0 >>
      ELSE IF c.type \in {"REQUIRED_ARG_ADDED", "OPTIONAL_ARG_ADDED"}
      THEN LET tfa == CHOOSE x \in AddedArgs :
                        c.message \in {RequiredArgAdded(x), OptionalArgAdded(x)}
           IN  << PassRank(c), t, indexOf(members, tfa[2]), 1,
                  indexOf(newFieldOf(tfa).args, tfa[3]) >>
      ELSE LET tfa == CHOOSE x \in RemovedArgs \cup CommonArgs :
                        HasPrefix(c.message, ArgHead(x))
           IN  << PassRank(c), t, indexOf(members, tfa[2]), 0,
                  indexOf(oldFieldOf(tfa).args, tfa[3]) >>

\* a comes before b, position by position
Precedes(a, b) ==
  \E k \in 1..Len(a) :
    /\ a[k] < b[k]
    /\ \A m \in 1..(k - 1) : a[m] = b[m]

\* the changes of list stand in the order of their keys
InOldSchemaOrder(list) ==
  \A i \in 1..Len(list) : \A j \in 1..Len(list) :
    i < j => Precedes(OrderKey(list[i]), OrderKey(list[j]))

\* C25: within the output of each pass the changes follow the iteration
\* order of the old schema: the types in the order of the old type map,
\* within a type the old fields or old enum values in their order, and in
\* the argument pass, for each field, the changes about its old arguments in
\* their order before the changes about the arguments the new field adds.
C25_ChangesFollowOldSchemaOrder ==
  Done => InOldSchemaOrder(breakingChanges) /\ InOldSchemaOrder(dangerousChanges)

C25_Witness ==
  /\ Done
  /\ \E i \in 1..Len(breakingChanges) : \E j \in 1..Len(breakingChanges) :
       LET a == OrderKey(breakingChanges[i])
           b == OrderKey(breakingChanges[j])
       IN  i < j /\ a[1] = b[1] /\ a[2] < b[2]
  /\ \E i \in 1..Len(breakingChanges) : \E j \in 1..Len(breakingChanges) :
       LET a == OrderKey(breakingChanges[i])
           b == OrderKey(breakingChanges[j])
       IN  i < j /\ a[2] = b[2] /\ a[3] = b[3] /\ a[4] = 0 /\ b[4] = 0
             /\ a[5] < b[5] /\ a[5] > 0
  /\ \E i \in 1..Len(breakingChanges) : \E j \in 1..Len(breakingChanges) :
       LET a == OrderKey(breakingChanges[i])
           b == OrderKey(breakingChanges[j])
       IN  i < j /\ a[2] = b[2] /\ a[3] = b[3] /\ a[4] = 0 /\ b[4] = 1
  /\ \E i \in 1..Len(dangerousChanges) : \E j \in 1..Len(dangerousChanges) :
       OrderKey(dangerousChanges[i])[4] = 0 /\ OrderKey(dangerousChanges[j])[4] = 1

\* isDefaultValueEqual has been called on two values
Compared == env.program = "isDefaultValueEqual" /\ step = "end"

\* new holds the items of old in another order
IsPermutation(old, new) ==
  /\ Len(old) = Len(new)
  /\ \E p \in [1..Len(old) -> 1..Len(old)] :
       /\ \A i \in 1..Len(old) : \A j \in 1..Len(old) : p[i] = p[j] => i = j
       /\ \A i \in 1..Len(old) : new[i] = old[p[i]]

\* C26: isDefaultValueEqual is reflexive on every default value, NaN and
\* nested values included; a list and a different permutation of it with
\* distinct elements are not equal; two objects with the same keys and
\* pairwise equal values are equal whatever the order of their keys.
C26_DefaultValueEqualityIsReflexive ==
  Compared =>
    LET a == env.oldValue
        b == env.newValue
    IN  /\ a = b => calls[1].result
        /\ (/\ a.t = "array" /\ b.t = "array"
            /\ a # b
            /\ IsPermutation(a.items, b.items)
            /\ \A i \in 1..Len(a.items) : \A j \in 1..Len(a.items) :
                 i # j => ~DeepEqual(a.items[i], a.items[j]))
             => ~calls[1].result
        /\ (a.t = "object" /\ b.t = "object" /\ DeepEqual(a, b))
             => calls[1].result

\* the node of the new schema whose position a change of each category is
\* said to carry: the new type, the new field or the new argument
NewNodeOf(c) ==
  LET n == CHOOSE m \in CommonNames : IsAbout(c, m)
      newType == typeOfName(toSchema, n)
  IN  IF c.type \in {"FIELD_REMOVED", "TYPE_CHANGED_KIND",
                     "VALUE_REMOVED_FROM_ENUM"}
      THEN newType.astNode
      ELSE IF c.type = "FIELD_CHANGED_KIND"
      THEN (CHOOSE f \in Range(newType.fields) :
              c.resourceName = n \o "." \o f.name).astNode
      ELSE IF c.type \in {"REQUIRED_ARG_ADDED", "OPTIONAL_ARG_ADDED"}
      THEN newArgNode(CHOOSE x \in AddedArgs :
                        c.message \in {RequiredArgAdded(x), OptionalArgAdded(x)}).astNode
      ELSE IF c.type = "ARG_REMOVED"
      THEN newFieldNode(CHOOSE x \in RemovedArgs :
                          HasPrefix(c.message, ArgHead(x))).astNode
      ELSE newArgNode(CHOOSE x \in CommonArgs :
                        HasPrefix(c.message, ArgHead(x))).astNode

RulesCalled == env.program = "isChangeSafe" /\ step = "end"

\* what a rule returned for the change from old to new
ResultOf(fn, old, new) ==
  calls[CHOOSE k \in 1..Len(calls) :
          calls[k].fn = fn /\ calls[k].old = old /\ calls[k].new = new].result

OutputRule == "isChangeSafeForObjectOrInterfaceField"

InputRule == "isChangeSafeForInputObjectFieldOrFieldArg"

\* C28: the two rules are duals: for all well-formed type references a and
\* b, the change from a to b is output-safe if and only if the change from b
\* to a is input-safe.
C28_RulesAreDual ==
  RulesCalled =>
    \A a \in Range(env.types) : \A b \in Range(env.types) :
      ResultOf(OutputRule, a, b) <=> ResultOf(InputRule, b, a)

C28_Witness ==
  /\ RulesCalled
  /\ \E a \in Range(env.types) : \E b \in Range(env.types) :
       /\ a # b
       /\ isListType(a)
       /\ ResultOf(OutputRule, a, b)
       /\ ResultOf(InputRule, b, a)
       /\ ~ResultOf(OutputRule, b, a)
       /\ ~ResultOf(InputRule, a, b)

\* C29: each rule is a preorder on well-formed type references: the change
\* from a to a is safe, and when the changes from a to b and from b to c are
\* safe, so is the change from a to c.
C29_RulesArePreorders ==
  RulesCalled =>
    \A fn \in {OutputRule, InputRule} :
      /\ \A a \in Range(env.types) : ResultOf(fn, a, a)
      /\ \A a \in Range(env.types) : \A b \in Range(env.types) :
           \A c \in Range(env.types) :
             (ResultOf(fn, a, b) /\ ResultOf(fn, b, c)) => ResultOf(fn, a, c)

C29_Witness ==
  /\ RulesCalled
  /\ env.types[1] # env.types[2] /\ env.types[2] # env.types[3]
  /\ \A fn \in {OutputRule, InputRule} :
       \E a \in Range(env.types) : \E b \in Range(env.types) :
         \E c \in Range(env.types) :
           /\ a # b /\ b # c
           /\ ResultOf(fn, a, b) /\ ResultOf(fn, b, c) /\ ResultOf(fn, a, c)

\* the two texts define the same names in the same order, and a definition
\* differs only where it is an input object in both or a union in both
OnlyInputOrUnionMembersDiffer ==
  /\ from.ok /\ to.ok
  /\ Len(from.doc) = Len(to.doc)
  /\ \A i \in 1..Len(from.doc) :
       /\ from.doc[i].name = to.doc[i].name
       /\ from.doc[i].kind = to.doc[i].kind
       /\ from.doc[i] # to.doc[i] => from.doc[i].kind \in {"Input", "Union"}

\* C30: for a type that is an input object in both schemas or a union in
\* both, no change to its members is reported: with an input field removed,
\* re-typed or added as required, or a union member removed, and nothing else
\* different, breakingChanges and dangerousChanges are empty.
C30_InputAndUnionMembersAreNotCompared ==
  (Done /\ OnlyInputOrUnionMembersDiffer) =>
    breakingChanges = <<>> /\ dangerousChanges = <<>>

C30_Witness ==
  /\ Done /\ OnlyInputOrUnionMembersDiffer
  /\ breakingChanges = <<>> /\ dangerousChanges = <<>>
  /\ \E n \in CommonNames :
       LET old == defOf(from.doc, n)
           new == defOf(to.doc, n)
       IN  /\ old.kind = "Input"
           /\ memberNames(old.fields) \ memberNames(new.fields) # {}
           /\ \E f \in memberNames(old.fields) \cap memberNames(new.fields) :
                memberOf(old.fields, f).type # memberOf(new.fields, f).type
           /\ \E f \in memberNames(new.fields) \ memberNames(old.fields) :
                memberOf(new.fields, f).type.kind = "NonNull"
  /\ \E n \in CommonNames :
       /\ defOf(from.doc, n).kind = "Union"
       /\ Range(defOf(from.doc, n).types) \ Range(defOf(to.doc, n).types) # {}

====
